---- MODULE Spec2Model ----
(***************************************************************************)
(* Valynx: value links over an immutable state tree.                       *)
(*                                                                         *)
(* Values.  A state value is an integer: 0 is `undefined`, a negative      *)
(* number is a one-character string scalar, a positive number is a         *)
(* reference to an object of the heap (a record or an array).  Objects,    *)
(* links, updater closures and lens tuples have reference identity: each   *)
(* lives in a table and is named by its position in it.                    *)
(***************************************************************************)
EXTENDS Integers, Sequences, FiniteSets, TLC

\* ---------------------------------------------------------------- bounds
MaxObjs == 3        \* objects ever allocated on the heap
MaxLinks == 5       \* link objects ever constructed over a record root
MaxFlatLinks == 4   \* link objects ever constructed over an array or a string root
MaxIdx == 1         \* largest index the application passes to item()

\* ---------------------------------------------------------------- values
Undefined == 0
Strings == {-1, -2}                  \* the strings "s" and "S"
PropNames == {"a", "b"}               \* property names the application uses
NoName == "-"                         \* a link constructed without a name
NoLink == 0                           \* the null result of find()

toUpperCase(s) == IF s = -1 THEN -2 ELSE s
toLowerCase(s) == IF s = -2 THEN -1 ELSE s

isScalar(v) == v <= 0
IsString(v) == v < 0
IsArray(h, v) == v \in DOMAIN h /\ h[v].kind = "arr"
IsRecord(h, v) == v \in DOMAIN h /\ h[v].kind = "rec"

NoFields == <<>>
RecObj(f) == [kind |-> "rec", rec |-> f, arr |-> <<>>]
ArrObj(s) == [kind |-> "arr", rec |-> NoFields, arr |-> s]

Min(a, b) == IF a < b THEN a ELSE b

\* Object.keys(v) for an object, the own keys a spread copies for the rest
ObjectKeys(h, v) ==
  IF IsRecord(h, v) THEN DOMAIN h[v].rec
  ELSE IF IsArray(h, v) THEN {ToString(i - 1) : i \in 1..Len(h[v].arr)}
  ELSE IF IsString(v) THEN {"0"}
  ELSE {}

\* v?.[key]
GetProp(h, v, key) ==
  IF key \notin ObjectKeys(h, v) THEN Undefined
  ELSE IF IsRecord(h, v) THEN h[v].rec[key]
  ELSE IF IsArray(h, v) THEN h[v].arr[CHOOSE i \in 1..Len(h[v].arr) : ToString(i - 1) = key]
  ELSE v

\* { ...(v ?? {}) }
Spread(h, v) == [k \in ObjectKeys(h, v) |-> GetProp(h, v, k)]

\* { ...f, [key]: val }
WithProp(f, key, val) == [k \in (DOMAIN f) \cup {key} |-> IF k = key THEN val ELSE f[k]]

\* a new object literal / array literal
Alloc(m, obj) ==
  [m |-> [m EXCEPT !.heap = Append(@, obj)], r |-> Len(m.heap) + 1, err |-> FALSE]

Ok(m, r) == [m |-> m, r |-> r, err |-> FALSE]
Throw(m) == [m |-> m, r |-> Undefined, err |-> TRUE]

\* ------------------------------------------------------- updater functions
\* An UpdaterFn is data: [path, leaf].  leaf is what the application passed
\* to set()/update(); path is the sequence of lenses wrapped around it by
\* apply(), outermost first: base => lens[1](base, fn).
ConstFn(v) == [path |-> <<>>, leaf |-> [op |-> "const", v |-> v]]
NamedFn(op) == [path |-> <<>>, leaf |-> [op |-> op, v |-> Undefined]]
\* a wrapper that threads the parent's lens inside the child's
WrapFnInside(lens, fn) == [path |-> fn.path \o <<lens>>, leaf |-> fn.leaf]
WrapFn(lens, fn) == [path |-> <<lens>> \o fn.path, leaf |-> fn.leaf]
\* x => ({ ...x, [key]: v }) and x => ({ [key]: v }): updaters of a record
WithFn(key, v) == [path |-> <<>>, leaf |-> [op |-> "with", v |-> v, key |-> key]]
OnlyFn(key, v) == [path |-> <<>>, leaf |-> [op |-> "only", v |-> v, key |-> key]]
\* (c) => fn2(fn1(c))
ComposeFn(fn1, fn2) ==
  [path |-> <<>>, leaf |-> [op |-> "compose", v |-> Undefined, first |-> fn1, then |-> fn2]]

RECURSIVE applyFn(_, _, _)

\* the application's own updater functions
leafApply(m, leaf, base) ==
  CASE leaf.op = "const" -> Ok(m, leaf.v)
    [] leaf.op = "with" -> Alloc(m, RecObj(WithProp(Spread(m.heap, base), leaf.key, leaf.v)))
    [] leaf.op = "only" -> Alloc(m, RecObj(WithProp(NoFields, leaf.key, leaf.v)))
    [] leaf.op = "compose" ->
         LET r == applyFn(m, leaf.first, base)
         IN IF r.err THEN Throw(m) ELSE applyFn(r.m, leaf.then, r.r)
    [] leaf.op = "toUpperCase" ->
         IF IsString(base) THEN Ok(m, toUpperCase(base)) ELSE Throw(m)
    [] leaf.op = "pop" ->
         IF IsArray(m.heap, base)
         THEN Alloc(m, ArrObj(SubSeq(m.heap[base].arr, 1, Len(m.heap[base].arr) - 1)))
         ELSE Throw(m)
    [] OTHER -> Throw(m)

RECURSIVE lensPut(_, _, _, _)

\* ------------------------------------------------------------------ lenses
arrayItemGet(m, idx, arr) ==
  IF IsArray(m.heap, arr)
  THEN IF idx < Len(m.heap[arr].arr) THEN m.heap[arr].arr[idx + 1] ELSE Undefined
  ELSE GetProp(m.heap, arr, ToString(idx))

\* a setter whose second slice starts at idx: the old element is kept after the new
arrayItemPutKeepsOld(m, idx, arr, fn) ==
  IF IsArray(m.heap, arr) \/ IsString(arr)
  THEN LET a == IF IsString(arr) THEN <<arr>> ELSE m.heap[arr].arr
           r == applyFn(m, fn, arrayItemGet(m, idx, arr))
       IN IF r.err THEN Throw(m)
          ELSE Alloc(r.m, ArrObj(SubSeq(a, 1, Min(idx, Len(a))) \o <<r.r>>
                                   \o SubSeq(a, idx + 1, Len(a))))
  ELSE Throw(m)

\* a setter that copies the array and assigns at idx: past the end the gap
\* is filled with undefined
arrayItemPutAssigns(m, idx, arr, fn) ==
  IF IsArray(m.heap, arr) \/ IsString(arr)
  THEN LET a == IF IsString(arr) THEN <<arr>> ELSE m.heap[arr].arr
           r == applyFn(m, fn, arrayItemGet(m, idx, arr))
       IN IF r.err THEN Throw(m)
          ELSE Alloc(r.m, ArrObj([j \in 1..(IF idx < Len(a) THEN Len(a) ELSE idx + 1) |->
                                    IF j = idx + 1 THEN r.r
                                    ELSE IF j <= Len(a) THEN a[j] ELSE Undefined]))
  ELSE Throw(m)

\* [...arr.slice(0, idx), updater(arr[idx]), ...arr.slice(idx + 1)]
arrayItemPut(m, idx, arr, fn) ==
  IF IsArray(m.heap, arr) \/ IsString(arr)
  THEN LET a == IF IsString(arr) THEN <<arr>> ELSE m.heap[arr].arr
           r == applyFn(m, fn, arrayItemGet(m, idx, arr))
       IN IF r.err THEN Throw(m)
          ELSE Alloc(r.m, ArrObj(SubSeq(a, 1, Min(idx, Len(a))) \o <<r.r>>
                                   \o SubSeq(a, idx + 2, Len(a))))
  ELSE Throw(m)

recordPropGet(m, key, record) == GetProp(m.heap, record, key)

\* a setter that assigns the property on the record it was given
recordPropPutInPlace(m, key, record, fn) ==
  LET r == applyFn(m, fn, recordPropGet(m, key, record))
  IN IF r.err THEN Throw(m)
     ELSE IF IsRecord(m.heap, record)
     THEN Ok([r.m EXCEPT !.heap[record].rec = WithProp(@, key, r.r)], record)
     ELSE Alloc(r.m, RecObj(WithProp(Spread(r.m.heap, record), key, r.r)))

\* a setter that forgets the spread: ({ [key]: updater(record?.[key]) })
recordPropPutNoSpread(m, key, record, fn) ==
  LET r == applyFn(m, fn, recordPropGet(m, key, record))
  IN IF r.err THEN Throw(m)
     ELSE Alloc(r.m, RecObj(WithProp(NoFields, key, r.r)))

\* a setter without `?? {}` and `?.`: it reads the key of the base it is given
recordPropPutStrict(m, key, record, fn) ==
  IF record = Undefined THEN Throw(m)
  ELSE LET r == applyFn(m, fn, recordPropGet(m, key, record))
       IN IF r.err THEN Throw(m)
          ELSE Alloc(r.m, RecObj(WithProp(Spread(r.m.heap, record), key, r.r)))

\* ({ ...(record ?? {}), [key]: updater(record?.[key]) })
recordPropPut(m, key, record, fn) ==
  LET r == applyFn(m, fn, recordPropGet(m, key, record))
  IN IF r.err THEN Throw(m)
     ELSE Alloc(r.m, RecObj(WithProp(Spread(r.m.heap, record), key, r.r)))

\* the test's upperCaseLens: [val => val.toUpperCase(), (val, update) => update(val.toLowerCase())]
upperCaseLensGet(m, val) == toUpperCase(val)
upperCaseLensPut(m, val, fn) ==
  IF IsString(val) THEN applyFn(m, fn, toLowerCase(val)) ELSE Throw(m)

\* omitProp(key): ({ [key]: _, ...metric }) => metric.  Destructuring
\* undefined throws; anything else gives a fresh object of the other own keys.
omitPropGet(m, key, record) ==
  IF record = Undefined THEN Throw(m)
  ELSE Alloc(m, RecObj([k \in ObjectKeys(m.heap, record) \ {key} |->
                          GetProp(m.heap, record, k)]))

\* a setter that returns the updated rest and never re-attaches the key
omitPropPutNoReattach(m, key, record, fn) ==
  LET metric == omitPropGet(m, key, record)
      r == applyFn(metric.m, fn, metric.r)
  IN IF metric.err \/ r.err THEN Throw(m)
     ELSE Alloc(r.m, RecObj(Spread(r.m.heap, r.r)))

\* a setter that spreads the updater's result over the key:
\* ({ [key]: keyVal, ...updater(metric) })
omitPropPutUpdaterWins(m, key, record, fn) ==
  LET metric == omitPropGet(m, key, record)
      r == applyFn(metric.m, fn, metric.r)
      new == Spread(r.m.heap, r.r)
  IN IF metric.err \/ r.err THEN Throw(m)
     ELSE Alloc(r.m, RecObj([k \in (DOMAIN new) \cup {key} |->
                               IF k \in DOMAIN new THEN new[k]
                               ELSE GetProp(m.heap, record, key)]))

\* ({ [key]: keyVal, ...metric }, updater) => ({ ...updater(metric), [key]: keyVal })
omitPropPut(m, key, record, fn) ==
  LET metric == omitPropGet(m, key, record)
      r == applyFn(metric.m, fn, metric.r)
  IN IF metric.err \/ r.err THEN Throw(m)
     ELSE Alloc(r.m, RecObj(WithProp(Spread(r.m.heap, r.r), key,
                                     GetProp(m.heap, record, key))))

\* a ChangeHandler of the application, (newValue, oldValue) => value:
\* "keepNew" returns newValue, "keepOld" returns oldValue and "upper"
\* returns newValue.toUpperCase()
Handlers == {"keepNew", "keepOld", "upper"}
handlerApply(m, handler, newValue, oldValue) ==
  CASE handler = "keepNew" -> Ok(m, newValue)
    [] handler = "keepOld" -> Ok(m, oldValue)
    [] OTHER -> IF IsString(newValue) THEN Ok(m, toUpperCase(newValue)) ELSE Throw(m)

\* onChange(handler): [(value) => value,
\*   (value, updater) => { const newValue = updater(value); return handler(newValue, value) }]
onChangeGet(m, value) == value
\* a setter that writes the updater's result without calling the handler
onChangePutNoHandler(m, handler, value, fn) ==
  applyFn(m, fn, value)

onChangePut(m, handler, value, fn) ==
  LET r == applyFn(m, fn, value)
  IN IF r.err THEN Throw(m) ELSE handlerApply(r.m, handler, r.r, value)

RECURSIVE mapChangedFrom(_, _, _, _, _, _, _)
\* newValue.map((newItem, idx) =>
\*   (newValue === oldValue[idx] ? newItem : handler(newItem, oldValue[idx])))
\* from index idx on; invoked collects the indices the handler was called at
mapChangedFrom(m, handler, newValue, oldValue, idx, acc, invoked) ==
  IF idx >= Len(m.heap[newValue].arr) THEN [m |-> m, r |-> acc, invoked |-> invoked, err |-> FALSE]
  ELSE LET newItem == m.heap[newValue].arr[idx + 1]
           oldItem == arrayItemGet(m, idx, oldValue)
       IN IF newValue = oldItem
          THEN mapChangedFrom(m, handler, newValue, oldValue, idx + 1, Append(acc, newItem), invoked)
          ELSE LET h == handlerApply(m, handler, newItem, oldItem)
               IN IF h.err THEN [m |-> m, r |-> acc, invoked |-> invoked \cup {idx}, err |-> TRUE]
                  ELSE mapChangedFrom(h.m, handler, newValue, oldValue, idx + 1,
                                      Append(acc, h.r), invoked \cup {idx})

\* mapChangedItems(handler)(newValue, oldValue)
mapChangedItems(m, handler, newValue, oldValue) ==
  mapChangedFrom(m, handler, newValue, oldValue, 0, <<>>, {})

\* partial(): [(value) => value, (value, updater) => ({ ...value, ...updater(value) })]
partialGet(m, value) == value
\* a setter that writes the partial result as the whole value
partialPutNoMerge(m, value, fn) ==
  LET r == applyFn(m, fn, value)
  IN IF r.err THEN Throw(m) ELSE Alloc(r.m, RecObj(Spread(r.m.heap, r.r)))

partialPut(m, value, fn) ==
  LET r == applyFn(m, fn, value)
      old == Spread(m.heap, value)
      new == Spread(r.m.heap, r.r)
  IN IF r.err THEN Throw(m)
     ELSE Alloc(r.m, RecObj([k \in (DOMAIN old) \cup (DOMAIN new) |->
                               IF k \in DOMAIN new THEN new[k] ELSE old[k]]))

\* lens[0](base) for the lenses whose getter returns a part of base.  An
\* onChange lens keeps the name of its handler in the key field.
lensGet(m, lens, base) ==
  LET L == m.lenses[lens]
  IN CASE L.kind = "arrayItem" -> arrayItemGet(m, L.idx, base)
       [] L.kind = "recordProp" -> recordPropGet(m, L.key, base)
       [] L.kind = "onChange" -> onChangeGet(m, base)
       [] L.kind = "partial" -> partialGet(m, base)
       [] OTHER -> upperCaseLensGet(m, base)

\* lens[0](base), for every lens: omitProp's getter builds a new object
lensRead(m, lens, base) ==
  IF m.lenses[lens].kind = "omitProp" THEN omitPropGet(m, m.lenses[lens].key, base)
  ELSE Ok(m, lensGet(m, lens, base))

lensPut(m, lens, base, fn) ==
  LET L == m.lenses[lens]
  IN CASE L.kind = "arrayItem" -> arrayItemPut(m, L.idx, base, fn)
       [] L.kind = "recordProp" -> recordPropPut(m, L.key, base, fn)
       [] L.kind = "omitProp" -> omitPropPut(m, L.key, base, fn)
       [] L.kind = "onChange" -> onChangePut(m, L.key, base, fn)
       [] L.kind = "partial" -> partialPut(m, base, fn)
       [] OTHER -> upperCaseLensPut(m, base, fn)

applyFn(m, fn, base) ==
  IF fn.path = <<>> THEN leafApply(m, fn.leaf, base)
  ELSE lensPut(m, Head(fn.path), base, [path |-> Tail(fn.path), leaf |-> fn.leaf])

\* --------------------------------------------------------- the root updaters
\* updater 1 is the no-op updater of emptyValueLink; updater 2 is the state
\* source's updater (value.current = update(value.current)); updater 3 is the
\* state setter of a useState pair, which applies a function it is given to
\* the current state.  Every later updater is a closure made by apply().
NoopUpdater == 1
SourceUpdater == 2
SetState == 3
RootUpdaters == {SourceUpdater, SetState}

RECURSIVE updaterCall(_, _, _)

Done(m, calls, err) == [m |-> m, calls |-> calls, err |-> err]

\* a closure that rewrites the value it captured: (_) => lens[1](value, fn)
derivedUpdateOnSnapshot(m, u, fn) ==
  LET U == m.updaters[u]
      r == lensPut(m, U.lens, U.value, fn)
  IN IF r.err THEN Done(m, 0, TRUE) ELSE updaterCall(r.m, U.parent, ConstFn(r.r))

\* (fn) => update((base) => lens[1](base, fn))
derivedUpdate(m, u, fn) ==
  updaterCall(m, m.updaters[u].parent, WrapFn(m.updaters[u].lens, fn))

\* value.current = update(value.current)
rootUpdate(m, fn) ==
  LET r == applyFn(m, fn, m.current)
  IN IF r.err THEN Done(m, 1, TRUE) ELSE Done([r.m EXCEPT !.current = r.r], 1, FALSE)

\* an emptyValueLink whose updater is the state source's, not () => {}
updaterCallNoopWrites(m, u, fn) ==
  IF m.updaters[u].kind = "derived" THEN derivedUpdate(m, u, fn) ELSE rootUpdate(m, fn)

updaterCall(m, u, fn) ==
  CASE m.updaters[u].kind = "noop" -> Done(m, 0, FALSE)
    [] m.updaters[u].kind = "derived" -> derivedUpdate(m, u, fn)
    [] OTHER -> rootUpdate(m, fn)

\* ------------------------------------------------------------------ caches
\* scalarToObj: the strongly held table of boxed scalars.  Property names,
\* numbers and state scalars are kept apart by sort.
scalarToObj(m, sort, key) == [m EXCEPT !.boxes[sort] = @ \cup {key}]

\* a weakKey that boxes every key, objects too
weakKeyBoxesAll(m, key) == scalarToObj(m, "val", key)

\* weakKey(key) for a key that is a state value
weakKey(m, key) == IF isScalar(key) THEN scalarToObj(m, "val", key) ELSE m

\* a lookup that never finds the second key
twoKeyWeakCacheMiss(m, key1, key2) ==
  [m |-> weakKey(m, key1), hits |-> {}]

twoKeyWeakCache(m, key1, key2) ==
  [m |-> weakKey(m, key1), hits |-> {e \in m.cache : e.k1 = key1 /\ e.k2 = key2}]

\* a lookup that does not look at the third key
threeKeyWeakCacheTwoKeys(m, key1, key2, key3) ==
  [m |-> weakKey(m, key1),
   hits |-> {e \in m.applyCache : e.k1 = key1 /\ e.k2 = key2}]

\* a lookup that does not look at the first key, the parent's value
threeKeyWeakCacheAnyValue(m, key1, key2, key3) ==
  [m |-> weakKey(m, key1),
   hits |-> {e \in m.applyCache : e.k2 = key2 /\ e.k3 = key3}]

threeKeyWeakCache(m, key1, key2, key3) ==
  [m |-> weakKey(m, key1),
   hits |-> {e \in m.applyCache : e.k1 = key1 /\ e.k2 = key2 /\ e.k3 = key3}]

Hit(m, hits) == [m |-> m, r |-> (CHOOSE e \in hits : TRUE).v, hit |-> TRUE]

\* memoize(arrayItem): one lens object per index
arrayItemUnmemoized(m, idx) ==
  [m |-> [m EXCEPT !.lenses = Append(@, [kind |-> "arrayItem", idx |-> idx, key |-> ""])],
   r |-> Len(m.lenses) + 1]

arrayItem(m, idx) ==
  LET m1 == scalarToObj(m, "num", idx)
  IN IF idx \in DOMAIN m1.arrayItemMemo
     THEN [m |-> m1, r |-> m1.arrayItemMemo[idx]]
     ELSE [m |-> [m1 EXCEPT !.lenses = Append(@, [kind |-> "arrayItem", idx |-> idx, key |-> ""]),
                            !.arrayItemMemo = (idx :> (Len(m1.lenses) + 1)) @@ @],
           r |-> Len(m1.lenses) + 1]

\* memoize(recordProp): one lens object per key
recordPropUnmemoized(m, key) ==
  [m |-> [m EXCEPT !.lenses = Append(@, [kind |-> "recordProp", idx |-> 0, key |-> key])],
   r |-> Len(m.lenses) + 1]

recordProp(m, key) ==
  LET m1 == scalarToObj(m, "str", key)
  IN IF key \in DOMAIN m1.recordPropMemo
     THEN [m |-> m1, r |-> m1.recordPropMemo[key]]
     ELSE [m |-> [m1 EXCEPT !.lenses = Append(@, [kind |-> "recordProp", idx |-> 0, key |-> key]),
                            !.recordPropMemo = (key :> (Len(m1.lenses) + 1)) @@ @],
           r |-> Len(m1.lenses) + 1]

\* ------------------------------------------------------------- link engine
createValueLink(m, value, update, name, cached) ==
  [m |-> [m EXCEPT !.links = Append(@, [value |-> value, update |-> update, name |-> name,
                                        cached |-> cached, itemsDone |-> FALSE,
                                        itemsMemo |-> <<>>])],
   r |-> Len(m.links) + 1, hit |-> FALSE]

valueLinkCreator(m, value, updater, name) ==
  LET look == twoKeyWeakCache(m, value, updater)
  IN IF look.hits # {} THEN Hit(look.m, look.hits)
     ELSE LET c == createValueLink(look.m, value, updater, name, TRUE)
          IN [c EXCEPT !.m.cache = @ \cup {[k1 |-> value, k2 |-> updater, v |-> c.r]}]

\* createValueLink(lens[0](value), (fn) => update((base) => lens[1](base, fn)), name, cache)
derive(m, l, lens, name) ==
  LET link == m.links[l]
      m1 == [m EXCEPT !.updaters = Append(@, [kind |-> "derived", parent |-> link.update,
                                              lens |-> lens, value |-> link.value])]
      got == lensRead(m1, lens, link.value)
  IN createValueLink(got.m, got.r, Len(m1.updaters), name, link.cached)

apply(m, l, lens, name) ==
  LET link == m.links[l]
  IN IF link.cached
     THEN LET look == threeKeyWeakCache(m, link.value, link.update, lens)
          IN IF look.hits # {} THEN Hit(look.m, look.hits)
             ELSE LET c == derive(look.m, l, lens, name)
                  IN [c EXCEPT !.m.applyCache =
                        @ \cup {[k1 |-> link.value, k2 |-> link.update, k3 |-> lens, v |-> c.r]}]
     ELSE derive(m, l, lens, name)

emptyValueLink == 1

\* an item() without the Array.isArray guard
itemUnguarded(m, l, idx) ==
  LET a == arrayItem(m, idx) IN apply(a.m, l, a.r, NoName)

item(m, l, idx) ==
  IF IsArray(m.heap, m.links[l].value)
  THEN LET a == arrayItem(m, idx) IN apply(a.m, l, a.r, NoName)
  ELSE [m |-> m, r |-> emptyValueLink, hit |-> FALSE]

RECURSIVE itemsFrom(_, _, _, _)
\* value.map((_, idx) => apply(arrayItem(idx)))
itemsFrom(m, l, idx, acc) ==
  IF idx >= Len(m.heap[m.links[l].value].arr) THEN [m |-> m, r |-> acc]
  ELSE LET c == item(m, l, idx) IN itemsFrom(c.m, l, idx + 1, Append(acc, c.r))

\* an items() that answers [emptyValueLink] for a value that is not an array
itemsOrEmptyLink(m, l) ==
  LET m1 == scalarToObj(m, "val", Undefined)
      link == m1.links[l]
  IN IF link.itemsDone THEN [m |-> m1, r |-> link.itemsMemo]
     ELSE LET b == IF IsArray(m1.heap, link.value) THEN itemsFrom(m1, l, 0, <<>>)
                   ELSE [m |-> m1, r |-> <<emptyValueLink>>]
          IN [m |-> [b.m EXCEPT !.links[l].itemsMemo = b.r, !.links[l].itemsDone = TRUE],
              r |-> b.r]

\* memoize(() => ...): computed once for each link
items(m, l) ==
  LET m1 == scalarToObj(m, "val", Undefined)
      link == m1.links[l]
  IN IF link.itemsDone THEN [m |-> m1, r |-> link.itemsMemo]
     ELSE LET b == IF IsArray(m1.heap, link.value) THEN itemsFrom(m1, l, 0, <<>>)
                   ELSE [m |-> m1, r |-> <<>>]
          IN [m |-> [b.m EXCEPT !.links[l].itemsMemo = b.r, !.links[l].itemsDone = TRUE],
              r |-> b.r]

\* value.findIndex(predicate): a predicate is the set of items it accepts
findIndex(h, arr, s) ==
  LET a == h[arr].arr
      found == {i \in 1..Len(a) : a[i] \in s}
  IN IF found = {} THEN -1 ELSE (CHOOSE i \in found : \A j \in found : i <= j) - 1

\* picks the last matching element
findLast(m, l, s) ==
  LET a == m.heap[m.links[l].value].arr
      found == {i \in 1..Len(a) : a[i] \in s}
  IN IF ~IsArray(m.heap, m.links[l].value) \/ found = {}
     THEN [m |-> m, r |-> NoLink, hit |-> FALSE]
     ELSE item(m, l, (CHOOSE i \in found : \A j \in found : i >= j) - 1)

find(m, l, s) ==
  IF ~IsArray(m.heap, m.links[l].value) THEN [m |-> m, r |-> NoLink, hit |-> FALSE]
  ELSE LET idx == findIndex(m.heap, m.links[l].value, s)
       IN IF idx # -1 THEN item(m, l, idx) ELSE [m |-> m, r |-> NoLink, hit |-> FALSE]

\* how many times value.findIndex(predicate) calls the predicate
findIndexCalls(h, arr, s) ==
  IF findIndex(h, arr, s) = -1 THEN Len(h[arr].arr) ELSE findIndex(h, arr, s) + 1

RECURSIVE applyEach(_, _, _, _)
\* its.map((item) => item.apply(lens))
applyEach(m, its, lens, acc) ==
  IF its = <<>> THEN [m |-> m, r |-> acc]
  ELSE LET c == apply(m, Head(its), lens, NoName)
       IN applyEach(c.m, Tail(its), lens, Append(acc, c.r))

\* applyItems(lens) is items().map((item) => item.apply(lens))
applyItems(m, l, lens) ==
  LET its == items(m, l) IN applyEach(its.m, its.r, lens, <<>>)

\* mapItems(fn) is items().map(fn), for the mapping function (item) => item.value;
\* invoked counts the calls of fn
mapItems(m, l) ==
  LET its == items(m, l)
  IN [m |-> its.m, r |-> [i \in 1..Len(its.r) |-> its.m.links[its.r[i]].value],
      invoked |-> Len(its.r)]

prop(m, l, name) ==
  LET p == recordProp(m, name) IN apply(p.m, l, p.r, name)

\* the keys in the order Object.keys lists them: indices first, ascending
KeyOrder == [i \in 1..(MaxObjs + 3) |-> ToString(i - 1)] \o <<"a", "b">>
KeySeq(S) == SelectSeq(KeyOrder, LAMBDA k : k \in S)

RECURSIVE propsFrom(_, _, _, _)
\* keys.forEach((name) => { built[name] = apply(recordProp(name), name) })
propsFrom(m, l, keys, built) ==
  IF keys = <<>> THEN [m |-> m, r |-> built]
  ELSE LET c == prop(m, l, Head(keys))
       IN propsFrom(c.m, l, Tail(keys), built \cup {<<Head(keys), c.r>>})

\* a props() that answers {} for everything but a record
propsOfRecords(m, l) ==
  IF IsRecord(m.heap, m.links[l].value)
  THEN propsFrom(m, l, KeySeq(ObjectKeys(m.heap, m.links[l].value)), {})
  ELSE [m |-> m, r |-> {}]

\* props(): the mapping is the set of its <<name, link>> entries
props(m, l) ==
  LET value == m.links[l].value
  IN IF isScalar(value) THEN [m |-> m, r |-> {}]
     ELSE propsFrom(m, l, KeySeq(ObjectKeys(m.heap, value)), {})

\* set(v) is update((_) => v)
update(m, l, fn) == updaterCall(m, m.links[l].update, fn)
set(m, l, v) == update(m, l, ConstFn(v))

\* a link that never reaches the pair's setter
createFromReactStateNoSetter(m, value, updater) ==
  createValueLink(m, value, NoopUpdater, NoName, FALSE)

\* createFromReactState([value, updater]) is createValueLink(value, updater)
createFromReactState(m, value, updater) ==
  createValueLink(m, value, updater, NoName, FALSE)

\* ------------------------------------------------------------------- state
VARIABLES
  heap,            \* the objects allocated so far (immutable records and arrays)
  current,         \* the state source's value.current / the useState state
  links,           \* the link objects constructed so far
  updaters,        \* the updater closures constructed so far
  lenses,          \* the lens tuples constructed so far
  arrayItemMemo,   \* memoize(arrayItem): index -> lens
  recordPropMemo,  \* memoize(recordProp): key -> lens
  cache,           \* valueLinkCreator's twoKeyWeakCache
  applyCache,      \* valueLinkCreator's threeKeyWeakCache
  boxes,           \* scalarToObj's table
  seen,            \* the root values the application has been handed
  hist,            \* every link a call has returned, with the call's arguments
  last             \* the most recent call and its outcome

vars == <<heap, current, links, updaters, lenses, arrayItemMemo, recordPropMemo,
          cache, applyCache, boxes, seen, hist, last>>

M == [heap |-> heap, current |-> current, links |-> links, updaters |-> updaters,
      lenses |-> lenses, arrayItemMemo |-> arrayItemMemo,
      recordPropMemo |-> recordPropMemo, cache |-> cache, applyCache |-> applyCache,
      boxes |-> boxes]

Commit(m) ==
  /\ Len(m.heap) <= MaxObjs
  /\ Len(m.links) <= (IF IsRecord(m.heap, 1) THEN MaxLinks ELSE MaxFlatLinks)
  /\ heap' = m.heap
  /\ current' = m.current
  /\ links' = m.links
  /\ updaters' = m.updaters
  /\ lenses' = m.lenses
  /\ arrayItemMemo' = m.arrayItemMemo
  /\ recordPropMemo' = m.recordPropMemo
  /\ cache' = m.cache
  /\ applyCache' = m.applyCache
  /\ boxes' = m.boxes
  /\ seen' = seen \cup {m.current}

UpperCaseLenses == {1, 2}     \* two lens objects made from the same functions

\* last: what the most recent call was.  A navigation records whether every
\* link it returned came out of a cache; find() and a write record their
\* arguments and outcome.
NoCall ==
  [op |-> "none", hit |-> FALSE, link |-> 0, pred |-> {}, result |-> NoLink,
   fn |-> ConstFn(Undefined), before |-> Undefined, calls |-> 0, err |-> FALSE]

Called(op, hit) == [NoCall EXCEPT !.op = op, !.hit = hit]

\* one entry of hist: a link returned by a call
Ret(op, cached, value, upd, key, idx, lens, result) ==
  [op |-> op, cached |-> cached, value |-> value, update |-> upd,
   key |-> key, idx |-> idx, lens |-> lens, result |-> result]

Nav(op, l, key, idx, lens, result) ==
  Ret(op, links[l].cached, links[l].value, links[l].update, key, idx, lens, result)

\* the root value the state source is constructed with: a record, an array
\* or a string
InitRoots ==
  {[heap |-> <<RecObj([a |-> -1, b |-> -2])>>, current |-> 1],
   [heap |-> <<ArrObj(<<-1, -2>>)>>, current |-> 1],
   [heap |-> <<>>, current |-> -1]}

Init ==
  /\ \E root \in InitRoots : heap = root.heap /\ current = root.current
  /\ links = <<[value |-> Undefined, update |-> NoopUpdater, name |-> NoName,
                cached |-> FALSE, itemsDone |-> FALSE, itemsMemo |-> <<>>]>>
  /\ updaters = <<[kind |-> "noop", parent |-> 0, lens |-> 0, value |-> Undefined],
                  [kind |-> "source", parent |-> 0, lens |-> 0, value |-> Undefined],
                  [kind |-> "setState", parent |-> 0, lens |-> 0, value |-> Undefined]>>
  /\ lenses = <<[kind |-> "upperCase", idx |-> 0, key |-> ""],
                [kind |-> "upperCase", idx |-> 0, key |-> ""]>>
  /\ arrayItemMemo = <<>>
  /\ recordPropMemo = <<>>
  /\ cache = {}
  /\ applyCache = {}
  /\ boxes = [str |-> {}, num |-> {}, val |-> {}]
  /\ seen = {current}
  /\ hist = {}
  /\ last = NoCall

\* ----------------------------------------------------------------- actions
\* createLink(value, updater, name) on the creator returned by valueLinkCreator()
CreateLink(value, updater, name) ==
  LET out == valueLinkCreator(M, value, updater, name)
  IN /\ Commit(out.m)
     /\ hist' = hist \cup {Ret("create", TRUE, value, updater, "", -1, 0, out.r)}
     /\ last' = Called("create", out.hit)

\* createFromReactState(useState pair): the pair holds the current state
CreateFromReactState ==
  LET out == createFromReactState(M, current, SetState)
  IN /\ Commit(out.m)
     /\ hist' = hist \cup {Ret("react", FALSE, current, SetState, "", -1, 0, out.r)}
     /\ last' = Called("react", FALSE)

Prop(l, name) ==
  LET out == prop(M, l, name)
  IN /\ IsRecord(heap, links[l].value)
     /\ Commit(out.m)
     /\ hist' = hist \cup {Nav("prop", l, name, -1, recordProp(M, name).r, out.r)}
     /\ last' = Called("prop", out.hit)

Props(l) ==
  LET out == props(M, l)
  IN /\ IsRecord(heap, links[l].value)
     /\ Commit(out.m)
     /\ hist' = hist \cup {Nav("props", l, p[1], -1, recordProp(out.m, p[1]).r, p[2]) : p \in out.r}
     /\ last' = Called("props", Len(out.m.links) = Len(links))

Item(l, idx) ==
  LET out == item(M, l, idx)
  IN /\ IsArray(heap, links[l].value)
     /\ Commit(out.m)
     /\ hist' = hist \cup {Nav("item", l, "", idx, arrayItem(M, idx).r, out.r)}
     /\ last' = Called("item", out.hit)

Items(l) ==
  LET out == items(M, l)
  IN /\ IsArray(heap, links[l].value)
     /\ Commit(out.m)
     /\ hist' = hist \cup {Nav("items", l, "", i - 1, arrayItem(out.m, i - 1).r, out.r[i]) : i \in 1..Len(out.r)}
     /\ last' = Called("items", Len(out.m.links) = Len(links))

\* find(predicate)
Find(l, pred) ==
  LET out == find(M, l, pred)
  IN /\ IsArray(heap, links[l].value)
     /\ Commit(out.m)
     /\ hist' = IF out.r = NoLink THEN hist
                ELSE LET idx == findIndex(heap, links[l].value, pred)
                     IN hist \cup {Nav("find", l, "", idx, arrayItem(M, idx).r, out.r)}
     /\ last' = [NoCall EXCEPT !.op = "find", !.link = l, !.pred = pred,
                               !.result = out.r, !.hit = out.hit]

\* apply(lens) with a lens object of the application
Apply(l, lens) ==
  LET out == apply(M, l, lens, NoName)
  IN /\ IsString(links[l].value)
     /\ Commit(out.m)
     /\ hist' = hist \cup {Nav("apply", l, "", -1, lens, out.r)}
     /\ last' = Called("apply", out.hit)

\* the updater functions the application calls a link with, by the type of
\* the value the link was built for
WriteFns(l) ==
  LET v == links[l].value
  IN IF isScalar(v)
     THEN {ConstFn(-1)} \cup {NamedFn("toUpperCase") : x \in {v} \cap Strings}
     ELSE {NamedFn("pop") : x \in {y \in {v} : IsArray(heap, y)}}

\* link.set(v) / link.update(fn)
Write(l, fn) ==
  LET out == update(M, l, fn)
  IN /\ Commit(out.m)
     /\ hist' = hist
     /\ last' = [NoCall EXCEPT !.op = "write", !.link = l, !.fn = fn, !.before = current,
                               !.calls = out.calls, !.err = out.err]

Next ==
  \/ \E v \in seen, u \in RootUpdaters : CreateLink(v, u, NoName)
  \/ CreateFromReactState
  \/ \E l \in DOMAIN links, k \in PropNames : Prop(l, k)
  \/ \E l \in DOMAIN links : Props(l)
  \/ \E l \in DOMAIN links, i \in 0..MaxIdx : Item(l, i)
  \/ \E l \in DOMAIN links : Items(l)
  \/ \E l \in DOMAIN links, pred \in SUBSET Strings : Find(l, pred)
  \/ \E l \in DOMAIN links, lens \in UpperCaseLenses : Apply(l, lens)
  \/ \E l \in DOMAIN links : \E fn \in WriteFns(l) : Write(l, fn)

Spec == Init /\ [][Next]_vars

\* ------------------------------------------- navigation whatever the shape
\* ShapeSpec: an application that calls every navigation method on every
\* link, whatever the shape of the link's value.  PropsSpec: an application
\* that uses prop() and props() on a sequence or a string.  ComposeSpec: an application
\* that holds lens objects of its own (omitProp, onChange, partial,
\* upperCaseLens), applies them one after the other and writes through the
\* links it gets.
MaxShapeObjs == 3     \* ShapeSpec: objects ever allocated on the heap
MaxShapeLinks == 3    \* ShapeSpec: link objects ever constructed
MaxPropsObjs == 2     \* PropsSpec: objects ever allocated on the heap
MaxPropsLinks == 5    \* PropsSpec: link objects ever constructed
MaxComposeObjs == 5   \* ComposeSpec: objects ever allocated on the heap
MaxComposeLinks == 4  \* ComposeSpec: link objects ever constructed

\* lens objects 1 and 2 are upperCaseLens; the application made the others
\* with omitProp("a"), onChange(upper) and partial()
ShapeLenses ==
  <<[kind |-> "upperCase", idx |-> 0, key |-> ""],
    [kind |-> "upperCase", idx |-> 0, key |-> ""],
    [kind |-> "omitProp", idx |-> 0, key |-> "a"],
    [kind |-> "onChange", idx |-> 0, key |-> "upper"],
    [kind |-> "partial", idx |-> 0, key |-> ""]>>
AppLenses == {1, 3, 4, 5}

NoShapeCall ==
  [op |-> "none", link |-> 0, lens |-> 0, pred |-> {}, result |-> NoLink,
   list |-> <<>>, entries |-> {}, invoked |-> 0,
   fn |-> ConstFn(Undefined), before |-> Undefined, calls |-> 0, err |-> FALSE]

ShapeInit ==
  /\ \E root \in InitRoots : heap = root.heap /\ current = root.current
  /\ links = <<[value |-> Undefined, update |-> NoopUpdater, name |-> NoName,
                cached |-> FALSE, itemsDone |-> FALSE, itemsMemo |-> <<>>]>>
  /\ updaters = <<[kind |-> "noop", parent |-> 0, lens |-> 0, value |-> Undefined],
                  [kind |-> "source", parent |-> 0, lens |-> 0, value |-> Undefined],
                  [kind |-> "setState", parent |-> 0, lens |-> 0, value |-> Undefined]>>
  /\ lenses = ShapeLenses
  /\ arrayItemMemo = <<>>
  /\ recordPropMemo = <<>>
  /\ cache = {}
  /\ applyCache = {}
  /\ boxes = [str |-> {}, num |-> {}, val |-> {}]
  /\ seen = {current}
  /\ hist = {}
  /\ last = NoShapeCall

\* the state after a call that returned, and what the call was
CallDone(m, call) ==
  /\ heap' = m.heap
  /\ current' = m.current
  /\ links' = m.links
  /\ updaters' = m.updaters
  /\ lenses' = m.lenses
  /\ arrayItemMemo' = m.arrayItemMemo
  /\ recordPropMemo' = m.recordPropMemo
  /\ cache' = m.cache
  /\ applyCache' = m.applyCache
  /\ boxes' = m.boxes
  /\ seen' = seen \cup {m.current}
  /\ hist' = hist
  /\ last' = [call EXCEPT !.before = current]

Returned(m, call) ==
  /\ Len(m.heap) <= MaxShapeObjs
  /\ Len(m.links) <= MaxShapeLinks
  /\ CallDone(m, call)

\* createLink(value, updater) with the state source's current value
ShapeCreate ==
  LET out == valueLinkCreator(M, current, SourceUpdater, NoName)
  IN Returned(out.m, [NoShapeCall EXCEPT !.op = "create", !.result = out.r])

ShapeItem(l, idx) ==
  LET out == item(M, l, idx)
  IN Returned(out.m, [NoShapeCall EXCEPT !.op = "item", !.link = l, !.result = out.r])

ShapeItems(l) ==
  LET out == items(M, l)
  IN Returned(out.m, [NoShapeCall EXCEPT !.op = "items", !.link = l, !.list = out.r])

ShapeApplyItems(l, lens) ==
  LET out == applyItems(M, l, lens)
  IN Returned(out.m, [NoShapeCall EXCEPT !.op = "applyItems", !.link = l, !.lens = lens,
                                         !.list = out.r])

ShapeMapItems(l) ==
  LET out == mapItems(M, l)
  IN Returned(out.m, [NoShapeCall EXCEPT !.op = "mapItems", !.link = l, !.list = out.r,
                                         !.invoked = out.invoked])

ShapeFind(l, pred) ==
  LET out == find(M, l, pred)
  IN Returned(out.m, [NoShapeCall EXCEPT
       !.op = "find", !.link = l, !.pred = pred, !.result = out.r,
       !.invoked = IF IsArray(heap, links[l].value)
                   THEN findIndexCalls(heap, links[l].value, pred) ELSE 0])

ShapeProp(l, name) ==
  LET out == prop(M, l, name)
  IN Returned(out.m, [NoShapeCall EXCEPT !.op = "prop", !.link = l, !.result = out.r])

ShapeProps(l) ==
  LET out == props(M, l)
  IN Returned(out.m, [NoShapeCall EXCEPT !.op = "props", !.link = l, !.entries = out.r])

\* the updater functions the application writes with, by the value of the link
ShapeFns(l) ==
  IF IsRecord(heap, links[l].value)
  THEN {WithFn("a", -2), WithFn("c", -1), OnlyFn("b", -1)}
  ELSE IF IsString(links[l].value) THEN {ConstFn(-1), NamedFn("toUpperCase")}
  ELSE IF links[l].value = Undefined THEN {ConstFn(-1)}
  ELSE {}

\* link.set(v) / link.update(fn)
ShapeWrite(l, fn) ==
  LET out == update(M, l, fn)
  IN Returned(out.m, [NoShapeCall EXCEPT !.op = "write", !.link = l, !.fn = fn,
                                         !.calls = out.calls, !.err = out.err])

ShapeNext ==
  \/ ShapeCreate
  \/ \E l \in DOMAIN links, i \in 0..MaxIdx : ShapeItem(l, i)
  \/ \E l \in DOMAIN links : ShapeItems(l)
  \/ \E l \in DOMAIN links : ShapeApplyItems(l, 1)
  \/ \E l \in DOMAIN links : ShapeMapItems(l)
  \/ \E l \in DOMAIN links : ShapeFind(l, {-2})
  \/ \E l \in DOMAIN links, k \in PropNames : ShapeProp(l, k)
  \/ \E l \in DOMAIN links : ShapeProps(l)
  \/ \E l \in DOMAIN links : \E fn \in ShapeFns(l) : ShapeWrite(l, fn)

ShapeSpec == ShapeInit /\ [][ShapeNext]_vars

\* ------------------------------------- record methods on a sequence or string
PropsDone(m, call) ==
  /\ Len(m.heap) <= MaxPropsObjs
  /\ Len(m.links) <= MaxPropsLinks
  /\ CallDone(m, call)

PropsInit ==
  /\ ShapeInit
  /\ ~IsRecord(heap, current)

PropsCreate ==
  LET out == valueLinkCreator(M, current, SourceUpdater, NoName)
  IN PropsDone(out.m, [NoShapeCall EXCEPT !.op = "create", !.result = out.r])

PropsProp(l, name) ==
  LET out == prop(M, l, name)
  IN PropsDone(out.m, [NoShapeCall EXCEPT !.op = "prop", !.link = l, !.result = out.r])

PropsProps(l) ==
  LET out == props(M, l)
  IN PropsDone(out.m, [NoShapeCall EXCEPT !.op = "props", !.link = l, !.entries = out.r])

PropsWrite(l, fn) ==
  LET out == update(M, l, fn)
  IN PropsDone(out.m, [NoShapeCall EXCEPT !.op = "write", !.link = l, !.fn = fn,
                                          !.calls = out.calls, !.err = out.err])

PropsNext ==
  \/ PropsCreate
  \/ \E l \in DOMAIN links : PropsProp(l, "a")
  \/ \E l \in DOMAIN links : PropsProps(l)
  \/ \E l \in DOMAIN links : \E fn \in ShapeFns(l) : PropsWrite(l, fn)

PropsSpec == PropsInit /\ [][PropsNext]_vars

\* ---------------------------------------------------- lenses one after another
Composed(m, call) ==
  /\ Len(m.heap) <= MaxComposeObjs
  /\ Len(m.links) <= MaxComposeLinks
  /\ CallDone(m, call)

ComposeInit ==
  /\ ShapeInit
  /\ ~IsArray(heap, current)

ComposeCreate ==
  LET out == valueLinkCreator(M, current, SourceUpdater, NoName)
  IN Composed(out.m, [NoShapeCall EXCEPT !.op = "create", !.result = out.r])

\* link.apply(lens) with a lens typed for the link's value
ComposeApply(l, lens) ==
  LET out == apply(M, l, lens, NoName)
  IN /\ IF lenses[lens].kind \in {"omitProp", "partial"}
        THEN IsRecord(heap, links[l].value)
        ELSE IsString(links[l].value)
     /\ Composed(out.m, [NoShapeCall EXCEPT !.op = "apply", !.link = l, !.lens = lens,
                                            !.result = out.r])

\* link.prop(name) on a record
ComposeProp(l, name) ==
  LET out == prop(M, l, name)
  IN /\ IsRecord(heap, links[l].value)
     /\ Composed(out.m, [NoShapeCall EXCEPT !.op = "prop", !.link = l, !.result = out.r])

ComposeWrite(l, fn) ==
  LET out == update(M, l, fn)
  IN Composed(out.m, [NoShapeCall EXCEPT !.op = "write", !.link = l, !.fn = fn,
                                         !.calls = out.calls, !.err = out.err])

ComposeNext ==
  \/ ComposeCreate
  \/ \E l \in DOMAIN links, lens \in AppLenses : ComposeApply(l, lens)
  \/ \E l \in DOMAIN links, k \in PropNames : ComposeProp(l, k)
  \/ \E l \in DOMAIN links : \E fn \in ShapeFns(l) : ComposeWrite(l, fn)

ComposeSpec == ComposeInit /\ [][ComposeNext]_vars

\* ------------------------------------------------------------ the lens laws
\* The lens tuples are pure functions of (base, updater).  LawSpec applies
\* every built-in lens to bases and child updaters drawn from small sets and
\* keeps, by value, what get and put returned; the base of the next step is
\* the result of put(base, fn1).

\* a value by value: a scalar, or the fields / elements of the object
Val(h, v) ==
  IF isScalar(v) THEN [kind |-> "scalar", s |-> v, rec |-> NoFields, arr |-> <<>>]
  ELSE [kind |-> h[v].kind, s |-> Undefined, rec |-> h[v].rec, arr |-> h[v].arr]
Thrown == [kind |-> "throws", s |-> Undefined, rec |-> NoFields, arr |-> <<>>]
Outcome(r) == IF r.err THEN Thrown ELSE Val(r.m.heap, r.r)

\* the lens objects the application made: arrayItem(0..MaxIdx), recordProp
\* and omitProp of each property name, onChange of each handler, partial()
LawLenses ==
  [i \in 1..(MaxIdx + 1) |-> [kind |-> "arrayItem", idx |-> i - 1, key |-> ""]]
  \o <<[kind |-> "recordProp", idx |-> 0, key |-> "a"],
       [kind |-> "recordProp", idx |-> 0, key |-> "b"],
       [kind |-> "omitProp", idx |-> 0, key |-> "a"],
       [kind |-> "omitProp", idx |-> 0, key |-> "b"],
       [kind |-> "onChange", idx |-> 0, key |-> "keepNew"],
       [kind |-> "onChange", idx |-> 0, key |-> "keepOld"],
       [kind |-> "onChange", idx |-> 0, key |-> "upper"],
       [kind |-> "partial", idx |-> 0, key |-> ""]>>

\* the bases: a record, a record without the key a, an array, a string and
\* an absent base
LawBases ==
  {[heap |-> <<RecObj([a |-> -1, b |-> -2])>>, current |-> 1],
   [heap |-> <<RecObj([b |-> -2])>>, current |-> 1],
   [heap |-> <<ArrObj(<<-1, -2>>)>>, current |-> 1],
   [heap |-> <<>>, current |-> -1],
   [heap |-> <<>>, current |-> Undefined]}

\* the bases a lens is typed for
Accepts(h, L, base) ==
  CASE L.kind = "arrayItem" -> IsArray(h, base)
    [] L.kind = "recordProp" -> IsRecord(h, base) \/ base = Undefined
    [] L.kind = "omitProp" -> IsRecord(h, base)
    [] L.kind = "onChange" -> IsRecord(h, base) \/ IsString(base)
    [] OTHER -> IsRecord(h, base)

\* child updaters, by the type of the child they are given
LawFns(h, child) ==
  IF IsRecord(h, child)
  THEN {WithFn("a", -2), OnlyFn("a", -2), OnlyFn("b", -1)}
  ELSE {ConstFn(-1), ConstFn(-2), NamedFn("toUpperCase")}

NoLaw ==
  [op |-> "none", lens |-> [kind |-> "", idx |-> 0, key |-> ""],
   fn1 |-> ConstFn(Undefined), fn2 |-> ConstFn(Undefined),
   base |-> Thrown, get |-> Thrown, getput |-> Thrown, put |-> Thrown,
   putget |-> Thrown, fnget |-> Thrown, putput |-> Thrown, putcomp |-> Thrown]

LawInit ==
  /\ \E root \in LawBases : heap = root.heap /\ current = root.current
  /\ links = <<>>
  /\ updaters = <<>>
  /\ lenses = LawLenses
  /\ arrayItemMemo = <<>>
  /\ recordPropMemo = <<>>
  /\ cache = {}
  /\ applyCache = {}
  /\ boxes = [str |-> {}, num |-> {}, val |-> {}]
  /\ seen = {}
  /\ hist = {}
  /\ last = NoLaw

\* get(base), put(base, _ => get(base)), get(put(base, fn1)), fn1(get(base)),
\* put(put(base, fn1), fn2) and put(base, c => fn2(fn1(c)))
Law(lens, fn1, fn2) ==
  LET got == lensRead(M, lens, current)
      getput == lensPut(got.m, lens, current, ConstFn(got.r))
      put1 == lensPut(M, lens, current, fn1)
      putget == IF put1.err THEN Throw(M) ELSE lensRead(put1.m, lens, put1.r)
      fnget == IF got.err THEN Throw(M) ELSE applyFn(got.m, fn1, got.r)
      putput == IF put1.err THEN Throw(M) ELSE lensPut(put1.m, lens, put1.r, fn2)
      putcomp == lensPut(M, lens, current, ComposeFn(fn1, fn2))
  IN /\ ~put1.err
     /\ heap' = IF isScalar(put1.r) THEN <<>> ELSE <<put1.m.heap[put1.r]>>
     /\ current' = IF isScalar(put1.r) THEN put1.r ELSE 1
     /\ last' = [op |-> "law", lens |-> lenses[lens], fn1 |-> fn1, fn2 |-> fn2,
                 base |-> Val(heap, current), get |-> Outcome(got),
                 getput |-> IF got.err THEN Thrown ELSE Outcome(getput),
                 put |-> Outcome(put1), putget |-> Outcome(putget),
                 fnget |-> Outcome(fnget), putput |-> Outcome(putput),
                 putcomp |-> Outcome(putcomp)]
     /\ UNCHANGED <<links, updaters, lenses, arrayItemMemo, recordPropMemo, cache,
                    applyCache, boxes, seen, hist>>

LawNext ==
  \E lens \in DOMAIN lenses :
    /\ Accepts(heap, lenses[lens], current)
    /\ \E fn1 \in LawFns(lensRead(M, lens, current).m.heap, lensRead(M, lens, current).r) :
         \E fn2 \in LawFns(lensRead(M, lens, current).m.heap, lensRead(M, lens, current).r) :
           Law(lens, fn1, fn2)

LawSpec == LawInit /\ [][LawNext]_vars

\* ------------------------------------------------- names and mapping objects
\* NameSpec: an application that gives its root links names, reaches a
\* property both with prop(k) and with apply(recordProp(k)), and keeps the
\* mapping objects props() returns.  hist holds the mapping objects built so
\* far, each under the position it was allocated at.
MaxNameObjs == 2      \* NameSpec: objects ever allocated on the heap
MaxNameLinks == 4     \* NameSpec: link objects ever constructed
MaxBuilt == 2         \* NameSpec: mapping objects props() ever built

LinkNames == {NoName, "n1", "n2"}

NoNameCall ==
  [op |-> "none", link |-> 0, key |-> "", name |-> NoName, result |-> NoLink,
   built |-> 0]

NameInit ==
  /\ heap = <<RecObj([a |-> -1, b |-> -2])>>
  /\ current = 1
  /\ links = <<[value |-> Undefined, update |-> NoopUpdater, name |-> NoName,
                cached |-> FALSE, itemsDone |-> FALSE, itemsMemo |-> <<>>]>>
  /\ updaters = <<[kind |-> "noop", parent |-> 0, lens |-> 0, value |-> Undefined],
                  [kind |-> "source", parent |-> 0, lens |-> 0, value |-> Undefined],
                  [kind |-> "setState", parent |-> 0, lens |-> 0, value |-> Undefined]>>
  /\ lenses = <<>>
  /\ arrayItemMemo = <<>>
  /\ recordPropMemo = <<>>
  /\ cache = {}
  /\ applyCache = {}
  /\ boxes = [str |-> {}, num |-> {}, val |-> {}]
  /\ seen = {current}
  /\ hist = {}
  /\ last = NoNameCall

Named(m, built, call) ==
  /\ Len(m.heap) <= MaxNameObjs
  /\ Len(m.links) <= MaxNameLinks
  /\ Cardinality(built) <= MaxBuilt
  /\ heap' = m.heap
  /\ current' = m.current
  /\ links' = m.links
  /\ updaters' = m.updaters
  /\ lenses' = m.lenses
  /\ arrayItemMemo' = m.arrayItemMemo
  /\ recordPropMemo' = m.recordPropMemo
  /\ cache' = m.cache
  /\ applyCache' = m.applyCache
  /\ boxes' = m.boxes
  /\ seen' = seen \cup {m.current}
  /\ hist' = built
  /\ last' = call

\* createLink(value, updater, name) with the state source's current value
NameCreate(name) ==
  LET out == valueLinkCreator(M, current, SourceUpdater, name)
  IN Named(out.m, hist, [NoNameCall EXCEPT !.op = "create", !.name = name, !.result = out.r])

\* link.apply(recordProp(k)), without a name
NameApply(l, k) ==
  LET p == recordProp(M, k)
      out == apply(p.m, l, p.r, NoName)
  IN /\ IsRecord(heap, links[l].value)
     /\ Named(out.m, hist, [NoNameCall EXCEPT !.op = "apply", !.link = l, !.key = k,
                                              !.result = out.r])

\* link.prop(k)
NameProp(l, k) ==
  LET out == prop(M, l, k)
  IN /\ IsRecord(heap, links[l].value)
     /\ Named(out.m, hist, [NoNameCall EXCEPT !.op = "prop", !.link = l, !.key = k,
                                              !.result = out.r])

\* link.props(): `let built = {}` is a new object on every call
NameProps(l) ==
  LET out == props(M, l)
      obj == Cardinality(hist) + 1
  IN /\ IsRecord(heap, links[l].value)
     /\ Named(out.m,
              hist \cup {[obj |-> obj, value |-> links[l].value, update |-> links[l].update,
                          cached |-> links[l].cached, entries |-> out.r]},
              [NoNameCall EXCEPT !.op = "props", !.link = l, !.built = obj])

\* link.set("s") through a link of a string
NameWrite(l) ==
  LET out == set(M, l, -1)
  IN /\ IsString(links[l].value)
     /\ Named(out.m, hist, [NoNameCall EXCEPT !.op = "write", !.link = l])

NameNext ==
  \/ \E n \in LinkNames : NameCreate(n)
  \/ \E l \in DOMAIN links, k \in PropNames : NameApply(l, k)
  \/ \E l \in DOMAIN links, k \in PropNames : NameProp(l, k)
  \/ \E l \in DOMAIN links : NameProps(l)
  \/ \E l \in DOMAIN links : NameWrite(l)

NameSpec == NameInit /\ [][NameNext]_vars

\* ------------------------------------------------- a record without the key
\* AbsentSpec: the state is a record that has no property a; the application
\* reaches into a.b all the same and writes there.
MaxAbsentObjs == 3    \* AbsentSpec: objects ever allocated on the heap
MaxAbsentLinks == 4   \* AbsentSpec: link objects ever constructed

AbsentInit ==
  /\ heap = <<RecObj([b |-> -2])>>
  /\ current = 1
  /\ links = <<[value |-> Undefined, update |-> NoopUpdater, name |-> NoName,
                cached |-> FALSE, itemsDone |-> FALSE, itemsMemo |-> <<>>]>>
  /\ updaters = <<[kind |-> "noop", parent |-> 0, lens |-> 0, value |-> Undefined],
                  [kind |-> "source", parent |-> 0, lens |-> 0, value |-> Undefined],
                  [kind |-> "setState", parent |-> 0, lens |-> 0, value |-> Undefined]>>
  /\ lenses = <<>>
  /\ arrayItemMemo = <<>>
  /\ recordPropMemo = <<>>
  /\ cache = {}
  /\ applyCache = {}
  /\ boxes = [str |-> {}, num |-> {}, val |-> {}]
  /\ seen = {current}
  /\ hist = {}
  /\ last = NoShapeCall

Reached(m, call) ==
  /\ Len(m.heap) <= MaxAbsentObjs
  /\ Len(m.links) <= MaxAbsentLinks
  /\ CallDone(m, call)

AbsentCreate ==
  LET out == valueLinkCreator(M, current, SourceUpdater, NoName)
  IN Reached(out.m, [NoShapeCall EXCEPT !.op = "create", !.result = out.r])

\* link.prop(name) on a link of a record or of undefined
AbsentProp(l, name) ==
  LET out == prop(M, l, name)
  IN /\ l # emptyValueLink
     /\ IsRecord(heap, links[l].value) \/ links[l].value = Undefined
     /\ Reached(out.m, [NoShapeCall EXCEPT !.op = "prop", !.link = l, !.result = out.r])

\* link.set(v) through a link of a string or of undefined
AbsentWrite(l, v) ==
  LET out == set(M, l, v)
  IN /\ l # emptyValueLink
     /\ isScalar(links[l].value)
     /\ Reached(out.m, [NoShapeCall EXCEPT !.op = "write", !.link = l, !.fn = ConstFn(v),
                                           !.calls = out.calls, !.err = out.err])

AbsentNext ==
  \/ AbsentCreate
  \/ \E l \in DOMAIN links, k \in PropNames : AbsentProp(l, k)
  \/ \E l \in DOMAIN links, v \in Strings : AbsentWrite(l, v)

AbsentSpec == AbsentInit /\ [][AbsentNext]_vars

\* ------------------------------------------------------------ mapChangedItems
\* ChangeSpec: mapChangedItems(handler) is a pure function of (newValue,
\* oldValue).  The heap holds the old array at 1 and the new array at 2; a
\* step calls the function and goes on with the new array as the old one and
\* the result as the new one.
MaxItems == 2         \* ChangeSpec: the longest array

ArraysOfStrings == UNION {[1..n -> Strings] : n \in 0..MaxItems}

NoChange ==
  [op |-> "none", handler |-> "", new |-> <<>>, old |-> <<>>, result |-> <<>>,
   invoked |-> {}, err |-> FALSE]

ChangeInit ==
  /\ \E old \in ArraysOfStrings, new \in ArraysOfStrings :
       heap = <<ArrObj(old), ArrObj(new)>>
  /\ current = 2
  /\ links = <<>>
  /\ updaters = <<>>
  /\ lenses = <<>>
  /\ arrayItemMemo = <<>>
  /\ recordPropMemo = <<>>
  /\ cache = {}
  /\ applyCache = {}
  /\ boxes = [str |-> {}, num |-> {}, val |-> {}]
  /\ seen = {}
  /\ hist = {}
  /\ last = NoChange

\* mapChangedItems(handler)(newValue, oldValue)
MapChanged(handler) ==
  LET out == mapChangedItems(M, handler, 2, 1)
  IN /\ ~out.err
     /\ heap' = <<heap[2], ArrObj(out.r)>>
     /\ last' = [op |-> "mapChanged", handler |-> handler, new |-> heap[2].arr,
                 old |-> heap[1].arr, result |-> out.r, invoked |-> out.invoked,
                 err |-> out.err]
     /\ UNCHANGED <<current, links, updaters, lenses, arrayItemMemo, recordPropMemo,
                    cache, applyCache, boxes, seen, hist>>

ChangeNext == \E handler \in Handlers : MapChanged(handler)

ChangeSpec == ChangeInit /\ [][ChangeNext]_vars

\* ------------------------------------------------ writes through stale links
\* StaleSpec: an application that keeps the links it took from one snapshot
\* and writes through them one after the other, without taking new links
\* first.  hist is the list of the writes made so far.
MaxStaleObjs == 4     \* StaleSpec: objects ever allocated on the heap
MaxStaleLinks == 4    \* StaleSpec: link objects ever constructed
MaxWrites == 3        \* StaleSpec: writes ever made

StaleInit ==
  /\ \E root \in InitRoots :
       heap = root.heap /\ current = root.current /\ ~isScalar(root.current)
  /\ links = <<[value |-> Undefined, update |-> NoopUpdater, name |-> NoName,
                cached |-> FALSE, itemsDone |-> FALSE, itemsMemo |-> <<>>]>>
  /\ updaters = <<[kind |-> "noop", parent |-> 0, lens |-> 0, value |-> Undefined],
                  [kind |-> "source", parent |-> 0, lens |-> 0, value |-> Undefined],
                  [kind |-> "setState", parent |-> 0, lens |-> 0, value |-> Undefined]>>
  /\ lenses = <<>>
  /\ arrayItemMemo = <<>>
  /\ recordPropMemo = <<>>
  /\ cache = {}
  /\ applyCache = {}
  /\ boxes = [str |-> {}, num |-> {}, val |-> {}]
  /\ seen = {current}
  /\ hist = <<>>
  /\ last = NoShapeCall

Kept(m, writes, call) ==
  /\ Len(m.heap) <= MaxStaleObjs
  /\ Len(m.links) <= MaxStaleLinks
  /\ Len(writes) <= MaxWrites
  /\ heap' = m.heap
  /\ current' = m.current
  /\ links' = m.links
  /\ updaters' = m.updaters
  /\ lenses' = m.lenses
  /\ arrayItemMemo' = m.arrayItemMemo
  /\ recordPropMemo' = m.recordPropMemo
  /\ cache' = m.cache
  /\ applyCache' = m.applyCache
  /\ boxes' = m.boxes
  /\ seen' = seen \cup {m.current}
  /\ hist' = writes
  /\ last' = [call EXCEPT !.before = current]

StaleCreate ==
  LET out == valueLinkCreator(M, current, SourceUpdater, NoName)
  IN Kept(out.m, hist, [NoShapeCall EXCEPT !.op = "create", !.result = out.r])

StaleProp(l, name) ==
  LET out == prop(M, l, name)
  IN /\ IsRecord(heap, links[l].value)
     /\ Kept(out.m, hist, [NoShapeCall EXCEPT !.op = "prop", !.link = l, !.result = out.r])

StaleItem(l, idx) ==
  LET out == item(M, l, idx)
  IN /\ IsArray(heap, links[l].value)
     /\ Kept(out.m, hist, [NoShapeCall EXCEPT !.op = "item", !.link = l, !.result = out.r])

\* link.set(v) / link.update(fn)
StaleWrite(l, fn) ==
  LET out == update(M, l, fn)
  IN Kept(out.m,
          Append(hist, [link |-> l, fn |-> fn, before |-> current, after |-> out.m.current,
                        calls |-> out.calls, err |-> out.err]),
          [NoShapeCall EXCEPT !.op = "write", !.link = l, !.fn = fn,
                              !.calls = out.calls, !.err = out.err])

StaleNext ==
  \/ StaleCreate
  \/ \E l \in DOMAIN links, k \in PropNames : StaleProp(l, k)
  \/ \E l \in DOMAIN links, i \in 0..MaxIdx : StaleItem(l, i)
  \/ \E l \in DOMAIN links : \E fn \in WriteFns(l) : StaleWrite(l, fn)

StaleSpec == StaleInit /\ [][StaleNext]_vars

\* ------------------------------------------------- what the caches keep alive
\* GcSpec: an application that holds a state source (its updater and, through
\* it, the current value), one creator and the links it has not let go of yet.
\* It lets its links go after use and, now and then, replaces the state source
\* by a new one with a new updater.  hist is the set of objects the
\* application holds: <<"upd", u>> and <<"link", l>>.
MaxGcObjs == 3        \* GcSpec: objects ever allocated on the heap
MaxGcLinks == 4       \* GcSpec: link objects ever constructed
MaxSources == 2       \* GcSpec: state sources ever constructed

\* the objects an object refers to.  A link holds its value and its update;
\* its items() memo, once filled, holds the item links.  The closure
\* (fn) => update((base) => lens[1](base, fn)) holds update and lens.
Refs(n) ==
  CASE n[1] = "obj" ->
         {<<"obj", heap[n[2]].rec[k]>> : k \in {j \in DOMAIN heap[n[2]].rec : ~isScalar(heap[n[2]].rec[j])}}
           \cup {<<"obj", heap[n[2]].arr[i]>> : i \in {j \in DOMAIN heap[n[2]].arr : ~isScalar(heap[n[2]].arr[j])}}
    [] n[1] = "link" ->
         {<<"obj", links[n[2]].value>> : x \in {links[n[2]].value} \ {v \in {links[n[2]].value} : isScalar(v)}}
           \cup {<<"upd", links[n[2]].update>>}
           \cup {<<"link", links[n[2]].itemsMemo[i]>> : i \in DOMAIN links[n[2]].itemsMemo}
    [] n[1] = "upd" ->
         IF updaters[n[2]].kind = "derived"
         THEN {<<"upd", updaters[n[2]].parent>>, <<"lens", updaters[n[2]].lens>>}
         ELSE {}
    [] OTHER -> {}

\* a key of a WeakMap is alive: a scalar key is boxed by scalarToObj, whose
\* Map holds the box for good; an object key is alive when it is reachable
KeyAlive(R, key) == isScalar(key) \/ <<"obj", key>> \in R

\* the caches as Maps: every entry holds its link whatever becomes of its keys
strongCacheHolds(R) ==
  {<<"link", e.v>> : e \in cache \cup applyCache}

\* the caches as nested WeakMaps: an entry holds its link while each of its
\* keys is alive
weakCacheHolds(R) ==
  {<<"link", e.v>> : e \in {c \in cache : KeyAlive(R, c.k1) /\ <<"upd", c.k2>> \in R}}
    \cup {<<"link", e.v>> : e \in {c \in applyCache :
            KeyAlive(R, c.k1) /\ <<"upd", c.k2>> \in R /\ <<"lens", c.k3>> \in R}}

RECURSIVE Closed(_, _)
\* everything reachable from R by references, and through the caches too
\* when caches is TRUE
Closed(R, caches) ==
  LET next == R \cup UNION {Refs(n) : n \in R}
                \cup (IF caches THEN weakCacheHolds(R) ELSE {})
  IN IF next = R THEN R ELSE Closed(next, caches)

\* what the application holds: its state source's updater, the links it has
\* not let go of, and through the state source the current value
AppHolds == hist \cup {<<"obj", current>> : x \in {current} \ {v \in {current} : isScalar(v)}}
\* what the module holds: emptyValueLink, and every lens (the memoized lens
\* creators are keyed by boxed scalars; upperCaseLens is a constant)
ModuleHolds == {<<"link", emptyValueLink>>} \cup {<<"lens", n>> : n \in DOMAIN lenses}

\* reachable from the application alone, and from everything with the caches
AppReach == Closed(AppHolds, FALSE)
Reach == Closed(AppHolds \cup ModuleHolds, TRUE)

HeldUpdater == CHOOSE u \in DOMAIN updaters : <<"upd", u>> \in hist

GcInit ==
  /\ \E root \in InitRoots :
       heap = root.heap /\ current = root.current /\ ~IsArray(root.heap, root.current)
  /\ links = <<[value |-> Undefined, update |-> NoopUpdater, name |-> NoName,
                cached |-> FALSE, itemsDone |-> FALSE, itemsMemo |-> <<>>]>>
  /\ updaters = <<[kind |-> "noop", parent |-> 0, lens |-> 0, value |-> Undefined],
                  [kind |-> "source", parent |-> 0, lens |-> 0, value |-> Undefined]>>
  /\ lenses = <<[kind |-> "upperCase", idx |-> 0, key |-> ""]>>
  /\ arrayItemMemo = <<>>
  /\ recordPropMemo = <<>>
  /\ cache = {}
  /\ applyCache = {}
  /\ boxes = [str |-> {}, num |-> {}, val |-> {}]
  /\ seen = {current}
  /\ hist = {<<"upd", SourceUpdater>>}
  /\ last = NoShapeCall

Held(m, held, call) ==
  /\ Len(m.heap) <= MaxGcObjs
  /\ Len(m.links) <= MaxGcLinks
  /\ heap' = m.heap
  /\ current' = m.current
  /\ links' = m.links
  /\ updaters' = m.updaters
  /\ lenses' = m.lenses
  /\ arrayItemMemo' = m.arrayItemMemo
  /\ recordPropMemo' = m.recordPropMemo
  /\ cache' = m.cache
  /\ applyCache' = m.applyCache
  /\ boxes' = m.boxes
  /\ seen' = seen \cup {m.current}
  /\ hist' = held
  /\ last' = [call EXCEPT !.before = current]

\* createLink(...stateSource())
GcCreate ==
  LET out == valueLinkCreator(M, current, HeldUpdater, NoName)
  IN Held(out.m, hist \cup {<<"link", out.r>>},
          [NoShapeCall EXCEPT !.op = "create", !.result = out.r])

\* link.prop(name) on a link the application holds
GcProp(l, name) ==
  LET out == prop(M, l, name)
  IN /\ <<"link", l>> \in hist
     /\ IsRecord(heap, links[l].value)
     /\ Held(out.m, hist \cup {<<"link", out.r>>},
             [NoShapeCall EXCEPT !.op = "prop", !.link = l, !.result = out.r])

\* link.apply(upperCaseLens) on a link of a string the application holds
GcApply(l) ==
  LET out == apply(M, l, 1, NoName)
  IN /\ <<"link", l>> \in hist
     /\ IsString(links[l].value)
     /\ Held(out.m, hist \cup {<<"link", out.r>>},
             [NoShapeCall EXCEPT !.op = "apply", !.link = l, !.lens = 1, !.result = out.r])

\* link.set(v) / link.update(fn) through a link the application holds
GcWrite(l, fn) ==
  LET out == update(M, l, fn)
  IN /\ <<"link", l>> \in hist
     /\ Held(out.m, hist, [NoShapeCall EXCEPT !.op = "write", !.link = l, !.fn = fn,
                                              !.calls = out.calls, !.err = out.err])

\* the application lets go of every link it holds
GcRelease ==
  /\ \E n \in hist : n[1] = "link"
  /\ Held(M, {n \in hist : n[1] = "upd"}, [NoShapeCall EXCEPT !.op = "release"])

\* the application lets go of its state source and its links and constructs a
\* new state source, with a new updater, on the current value
GcRemount ==
  /\ Cardinality({u \in DOMAIN updaters : updaters[u].kind = "source"}) < MaxSources
  /\ Held([M EXCEPT !.updaters = Append(@, [kind |-> "source", parent |-> 0, lens |-> 0,
                                            value |-> Undefined])],
          {<<"upd", Len(updaters) + 1>>}, [NoShapeCall EXCEPT !.op = "remount"])

GcNext ==
  \/ GcCreate
  \/ \E l \in DOMAIN links, k \in PropNames : GcProp(l, k)
  \/ \E l \in DOMAIN links : GcApply(l)
  \/ \E l \in DOMAIN links : \E fn \in WriteFns(l) : GcWrite(l, fn)
  \/ GcRelease
  \/ GcRemount

GcSpec == GcInit /\ [][GcNext]_vars

\* ------------------------------------------------------------------ claims
Created == {h \in hist : h.op = "create"}
Derived == {h \in hist : h.cached /\ h.op \in {"prop", "props", "item", "items", "find", "apply"}}
SameParent(h1, h2) == h1.value = h2.value /\ h1.update = h2.update
Written == Cardinality(seen) > 1

\* C1: one creator, called twice with the same value and the same updater,
\* returns the same link object, whatever was called in between.
C1_CreatorReturnsSameLink ==
  \A h1, h2 \in Created : SameParent(h1, h2) => h1.result = h2.result

\* a creator call answered from the cache, after a write and a navigation
C1_Witness ==
  /\ last.op = "create" /\ last.hit
  /\ Written
  /\ Derived # {}

\* C2: on a link of the creator, prop(k) returns the same link object on every
\* call, props() has an entry for every key of the record, and props()[k] is
\* the object prop(k) returns; the same across links of repeated creator calls.
C2_PropAndPropsReturnSameLink ==
  /\ \A h1, h2 \in Derived :
       /\ {h1.op, h2.op} \subseteq {"prop", "props"}
       /\ SameParent(h1, h2)
       /\ h1.key = h2.key
       => h1.result = h2.result
  /\ \A h \in Derived :
       h.op = "props" =>
         \A k \in DOMAIN heap[h.value].rec :
           \E g \in Derived : g.op = "props" /\ SameParent(g, h) /\ g.key = k

\* prop(k) and props() were both called on a record link and prop(k) was
\* answered from the cache
C2_Witness ==
  /\ last.op = "prop" /\ last.hit
  /\ \E h1, h2 \in Derived :
       /\ h1.op = "prop" /\ h2.op = "props"
       /\ SameParent(h1, h2) /\ h1.key = h2.key
       /\ IsRecord(heap, h1.value)

\* C3: on a link of the creator whose value is a sequence, item(i) returns the
\* same link object on every call, items() has exactly one entry per index,
\* and items()[i] is the object item(i) returns.
C3_ItemAndItemsReturnSameLink ==
  /\ \A h1, h2 \in Derived :
       /\ {h1.op, h2.op} \subseteq {"item", "items"}
       /\ SameParent(h1, h2)
       /\ h1.idx = h2.idx
       => h1.result = h2.result
  /\ \A l \in DOMAIN links :
       links[l].cached /\ links[l].itemsDone /\ IsArray(heap, links[l].value) =>
         /\ Len(links[l].itemsMemo) = Len(heap[links[l].value].arr)
         /\ \A i \in 1..Len(links[l].itemsMemo) :
              Nav("items", l, "", i - 1, arrayItem(M, i - 1).r, links[l].itemsMemo[i]) \in hist

\* item(i) and items() were both called on a sequence link and item(i) was
\* answered from the cache
C3_Witness ==
  /\ last.op = "item" /\ last.hit
  /\ \E h1, h2 \in Derived :
       /\ h1.op = "item" /\ h2.op = "items"
       /\ SameParent(h1, h2) /\ h1.idx = h2.idx
       /\ IsArray(heap, h1.value) /\ Len(heap[h1.value].arr) > 1

\* C4: two derivations through the apply cache return the same link object
\* if and only if they agree on the parent's value, the parent's updater and
\* the lens object, at any depth and for lenses of the application too.
C4_SameLinkIffSameKeys ==
  \A h1, h2 \in Derived :
    (h1.result = h2.result) <=> (SameParent(h1, h2) /\ h1.lens = h2.lens)

\* on a link that prop() returned, apply() was called with both upperCase
\* lens objects and once more with one of them
C4_Witness ==
  /\ last.op = "apply" /\ last.hit
  /\ \E h1, h2 \in Derived :
       /\ h1.op = "apply" /\ h2.op = "apply"
       /\ SameParent(h1, h2)
       /\ updaters[h1.update].kind = "derived"
       /\ h1.lens # h2.lens

\* C5: a link is an immutable snapshot: no call changes the value of a link or
\* an object that exists, and a write shows only in a root that is new.
C5_LinksAndObjectsNeverChange ==
  [][/\ \A l \in DOMAIN links : l \in DOMAIN links' /\ links'[l].value = links[l].value
     /\ \A o \in DOMAIN heap : o \in DOMAIN heap' /\ heap'[o] = heap[o]
     /\ current' # current /\ ~isScalar(current') => current' \notin DOMAIN heap]_vars

\* a write through prop(k) of a record link has produced a new root, and the
\* link written through still has the value it was built with
C5_Witness ==
  /\ last.op = "write" /\ last.calls = 1 /\ ~last.err
  /\ IsRecord(heap, last.before) /\ IsRecord(heap, current)
  /\ current # last.before
  /\ updaters[links[last.link].update].kind = "derived"
  /\ \E k \in DOMAIN heap[current].rec :
       /\ heap[current].rec[k] # links[last.link].value
       /\ heap[last.before].rec[k] = links[last.link].value

\* the closure behind a link's update, for a link that apply() made
Closure(l) == updaters[links[l].update]
IsChildOfRoot(l) ==
  /\ Closure(l).kind = "derived"
  /\ updaters[Closure(l).parent].kind \in {"source", "setState"}
IsPropLink(l) == IsChildOfRoot(l) /\ lenses[Closure(l).lens].kind = "recordProp"
IsItemLink(l) == IsChildOfRoot(l) /\ lenses[Closure(l).lens].kind = "arrayItem"
KeyOf(l) == lenses[Closure(l).lens].key
IdxOf(l) == lenses[Closure(l).lens].idx
\* what set(v) / update(x => x.toUpperCase()) makes of a string
Wanted(fn, old) == IF fn.leaf.op = "const" THEN fn.leaf.v ELSE toUpperCase(old)
WroteThrough(l) == last.op = "write" /\ last.link = l

\* C6: a write through link.prop(k) calls the root updater exactly once, and
\* the new root is the root it was applied to with key k replaced by v (set)
\* or by fn of the old value (update); every other key keeps its value.
C6_PropWriteReplacesOnlyKey ==
  \A l \in DOMAIN links :
    WroteThrough(l) /\ IsPropLink(l) /\ IsRecord(heap, last.before) =>
      LET old == heap[last.before].rec
          k == KeyOf(l)
      IN /\ ~last.err
         /\ last.calls = 1
         /\ IsRecord(heap, current)
         /\ DOMAIN heap[current].rec = (DOMAIN old) \cup {k}
         /\ heap[current].rec[k] = Wanted(last.fn, GetProp(heap, last.before, k))
         /\ \A j \in (DOMAIN old) \ {k} : heap[current].rec[j] = old[j]

\* update(fn) through prop(k) of a link whose record is no longer the root
C6_Witness ==
  \E l \in DOMAIN links :
    /\ WroteThrough(l) /\ IsPropLink(l) /\ IsRecord(heap, last.before)
    /\ last.fn.leaf.op = "toUpperCase"
    /\ Closure(l).value # last.before
    /\ heap[current].rec # heap[last.before].rec

\* items() has one link per index, in index order
ItemsInOrder ==
  \A l \in DOMAIN links :
    links[l].itemsDone /\ IsArray(heap, links[l].value) =>
      /\ Len(links[l].itemsMemo) = Len(heap[links[l].value].arr)
      /\ \A i \in 1..Len(links[l].itemsMemo) :
           /\ links[links[l].itemsMemo[i]].value = heap[links[l].value].arr[i]
           /\ IdxOf(links[l].itemsMemo[i]) = i - 1

\* item(i).value is the i-th element
ItemValue ==
  \A h \in hist :
    h.op = "item" /\ IsArray(heap, h.value) /\ h.idx < Len(heap[h.value].arr) =>
      links[h.result].value = heap[h.value].arr[h.idx + 1]

\* the write just made replaced index idx of the sequence it was applied to
\* by what the updater function asked for, and nothing else
ReplacedAt(idx) ==
  /\ ~last.err
  /\ last.calls = 1
  /\ IsArray(heap, current)
  /\ Len(heap[current].arr) = Len(heap[last.before].arr)
  /\ heap[current].arr[idx + 1] = Wanted(last.fn, heap[last.before].arr[idx + 1])
  /\ \A j \in 1..Len(heap[current].arr) :
       j # idx + 1 => heap[current].arr[j] = heap[last.before].arr[j]

\* C7 as stated: for a sequence link and 0 <= i < its length, items() has
\* length links in order, item(i).value is the i-th element and item(i).set(B)
\* gives a sequence of the same length that differs at index i only.
C7_Original ==
  /\ ItemsInOrder
  /\ ItemValue
  /\ \A l \in DOMAIN links :
       /\ WroteThrough(l) /\ IsItemLink(l) /\ last.fn.leaf.op = "const"
       /\ IsArray(heap, Closure(l).value)
       /\ IdxOf(l) < Len(heap[Closure(l).value].arr)
       => ReplacedAt(IdxOf(l))

\* C7 amended: the same, for a write at an index that is also within the
\* sequence the write is applied to.
C7_ItemsAndItemWrite ==
  /\ ItemsInOrder
  /\ ItemValue
  /\ \A l \in DOMAIN links :
       /\ WroteThrough(l) /\ IsItemLink(l) /\ last.fn.leaf.op = "const"
       /\ IsArray(heap, Closure(l).value)
       /\ IdxOf(l) < Len(heap[Closure(l).value].arr)
       /\ IdxOf(l) < Len(heap[last.before].arr)
       => ReplacedAt(IdxOf(l))

\* item(1).set(B) on a link for which items() was called too
C7_Witness ==
  \E l \in DOMAIN links :
    /\ WroteThrough(l) /\ IsItemLink(l) /\ last.fn.leaf.op = "const"
    /\ IdxOf(l) = 1 /\ IdxOf(l) < Len(heap[last.before].arr)
    /\ heap[current].arr # heap[last.before].arr
    /\ \E p \in DOMAIN links :
         links[p].itemsDone /\ Len(links[p].itemsMemo) = 2 /\ links[p].itemsMemo[2] = l

Found == {h.result : h \in {g \in hist : g.op = "find"}}

\* find() returns the link of the first element the predicate accepts, or
\* null when it accepts none
FindsFirst ==
  last.op = "find" =>
    LET a == heap[links[last.link].value].arr
        hits == {i \in 1..Len(a) : a[i] \in last.pred}
    IN IF hits = {} THEN last.result = NoLink
       ELSE /\ last.result \in DOMAIN links
            /\ \A i \in hits : IdxOf(last.result) + 1 <= i
            /\ IdxOf(last.result) + 1 \in hits
            /\ links[last.result].value = a[IdxOf(last.result) + 1]
            /\ Closure(last.result).parent = links[last.link].update

\* C8 as stated: find returns the first match or null, and a write through
\* the returned link replaces exactly that element: order, length and every
\* other element stay.
C8_Original ==
  /\ FindsFirst
  /\ \A l \in Found : WroteThrough(l) => ReplacedAt(IdxOf(l))

\* C8 amended: the same, for a write at an index that is still within the
\* sequence the write is applied to.
C8_FindFirstAndWrite ==
  /\ FindsFirst
  /\ \A l \in Found :
       WroteThrough(l) /\ IdxOf(l) < Len(heap[last.before].arr)
         => ReplacedAt(IdxOf(l))

\* find() chose the first of two matching elements
C8_Witness ==
  /\ last.op = "find"
  /\ last.result # NoLink
  /\ Cardinality({i \in 1..Len(heap[links[last.link].value].arr) :
                    heap[links[last.link].value].arr[i] \in last.pred}) = 2

\* C9: a link that find() returned writes into the sequence that is current
\* at write time: every other element of that sequence is in the new root,
\* and the index found is the one replaced.
C9_FindLinkWritesCurrent ==
  \A l \in Found :
    WroteThrough(l) /\ ~last.err =>
      /\ IsArray(heap, current)
      /\ \A j \in 1..Len(heap[last.before].arr) :
           j # IdxOf(l) + 1 => heap[current].arr[j] = heap[last.before].arr[j]
      /\ IdxOf(l) < Len(heap[last.before].arr) =>
           /\ Len(heap[current].arr) = Len(heap[last.before].arr)
           /\ heap[current].arr[IdxOf(l) + 1]
                = Wanted(last.fn, heap[last.before].arr[IdxOf(l) + 1])

\* between find() and the write another element was changed through another
\* link, and the write changed the element found
C9_Witness ==
  \E l \in Found :
    /\ WroteThrough(l) /\ ~last.err
    /\ IdxOf(l) < Len(heap[last.before].arr)
    /\ Len(heap[last.before].arr) = Len(heap[Closure(l).value].arr)
    /\ \E j \in 1..Len(heap[last.before].arr) :
         j # IdxOf(l) + 1 /\ heap[last.before].arr[j] # heap[Closure(l).value].arr[j]
    /\ heap[current].arr # heap[last.before].arr

ReactLinks == {h.result : h \in {g \in hist : g.op = "react"}}

\* what the application's function returns for the value v, by value
LeafResult(fn, v) ==
  CASE fn.leaf.op = "const" -> fn.leaf.v
    [] fn.leaf.op = "toUpperCase" -> toUpperCase(v)
    [] OTHER -> ArrObj(SubSeq(heap[v].arr, 1, Len(heap[v].arr) - 1))
ByValue(v) == IF isScalar(v) THEN v ELSE heap[v]

\* C10 as stated: update(fn) on the root link of createFromReactState calls
\* the setter once with fn(value), value being the one captured at
\* construction, so the host state becomes fn(value).
C10_Original ==
  \A l \in ReactLinks :
    WroteThrough(l) =>
      /\ last.calls = 1
      /\ ~last.err
      /\ ByValue(current) = LeafResult(last.fn, links[l].value)

\* C10 amended: update(fn) hands fn itself to the pair's setter, once; the
\* setter of useState applies it to the state that is current, so the host
\* state becomes fn(current state), and x after set(x).
C10_ReactUpdatePassesFn ==
  \A l \in ReactLinks :
    WroteThrough(l) =>
      /\ last.calls = 1
      /\ ~last.err
      /\ ByValue(current) = LeafResult(last.fn, last.before)
      /\ last.fn.leaf.op = "const" => current = last.fn.leaf.v

\* update(fn) on a root link whose captured value is no longer the host state
C10_Witness ==
  \E l \in ReactLinks :
    /\ WroteThrough(l)
    /\ last.before # links[l].value
    /\ ByValue(current) # ByValue(last.before)

\* ---------------------------------------------------- claims: the lens laws
\* equality by value
SameVal(x, y) ==
  /\ x.kind = y.kind
  /\ x.s = y.s
  /\ x.arr = y.arr
  /\ DOMAIN x.rec = DOMAIN y.rec
  /\ \A k \in DOMAIN x.rec : x.rec[k] = y.rec[k]

LawOf(kind) == last.op = "law" /\ last.lens.kind = kind
GetPut == SameVal(last.getput, last.base)
PutGet == SameVal(last.putget, last.fnget)
PutPut == SameVal(last.putput, last.putcomp)
HasKey(x, key) == x.kind = "rec" /\ key \in DOMAIN x.rec
Without(f, key) == [k \in (DOMAIN f) \ {key} |-> f[k]]

\* C11: arrayItem(idx) satisfies GetPut, PutGet and PutPut, by value, for
\* every array base with 0 <= idx < length and all child updaters.
C11_ArrayItemLaws ==
  LawOf("arrayItem") /\ last.lens.idx < Len(last.base.arr) =>
    GetPut /\ PutGet /\ PutPut

\* the three laws were evaluated at index 1 with two updaters that change the element
C11_Witness ==
  /\ LawOf("arrayItem") /\ last.lens.idx = 1 /\ Len(last.base.arr) = 2
  /\ last.fn1.leaf.op = "toUpperCase" /\ last.fn2.leaf.op = "const"
  /\ ~SameVal(last.put, last.base)
  /\ ~SameVal(last.putput, last.put)

\* C12 as stated: recordProp(key) satisfies GetPut, PutGet and PutPut for
\* every base it accepts, a record without key and an absent base included.
C12_Original ==
  LawOf("recordProp") => GetPut /\ PutGet /\ PutPut

\* C12 amended: PutGet and PutPut for every base it accepts; GetPut for a
\* record that contains key; for a record without key or an absent base,
\* put(base, _ => get(base)) is base's fields plus key holding undefined.
C12_RecordPropLaws ==
  LawOf("recordProp") =>
    /\ PutGet
    /\ PutPut
    /\ HasKey(last.base, last.lens.key) => GetPut
    /\ ~HasKey(last.base, last.lens.key) =>
         /\ last.getput.kind = "rec"
         /\ DOMAIN last.getput.rec = (DOMAIN last.base.rec) \cup {last.lens.key}
         /\ last.getput.rec[last.lens.key] = Undefined
         /\ \A k \in DOMAIN last.base.rec : last.getput.rec[k] = last.base.rec[k]

\* the laws were evaluated on an absent base
C12_Witness ==
  /\ LawOf("recordProp")
  /\ last.base.kind = "scalar" /\ last.base.s = Undefined
  /\ last.put.kind = "rec"
  /\ ~SameVal(last.putput, last.put)

\* C13 as stated: omitProp(key) satisfies GetPut, PutGet and PutPut for every
\* record base and every child updater, also one whose result contains key.
C13_Original ==
  LawOf("omitProp") => GetPut /\ PutGet /\ PutPut

\* C13 amended: GetPut for a record that contains key; get(put(base, fn)) is
\* fn(get(base)) without key, hence PutGet for an updater whose result does
\* not contain key; PutPut when fn1's result does not contain key.
C13_OmitPropLaws ==
  LawOf("omitProp") =>
    /\ HasKey(last.base, last.lens.key) => GetPut
    /\ last.putget.kind = "rec"
    /\ last.putget.rec = Without(last.fnget.rec, last.lens.key)
    /\ ~HasKey(last.fnget, last.lens.key) => PutGet
    /\ ~HasKey(last.fnget, last.lens.key) => PutPut

\* the laws were evaluated with an updater whose result contains the omitted key
C13_Witness ==
  /\ LawOf("omitProp")
  /\ HasKey(last.base, last.lens.key)
  /\ HasKey(last.fnget, last.lens.key)
  /\ ~SameVal(last.put, last.base)

\* what handler(newValue, oldValue) is, by value
Handled(handler, new, old) ==
  CASE handler = "keepNew" -> new
    [] handler = "keepOld" -> old
    [] OTHER -> IF new.kind = "scalar" /\ new.s < 0 THEN [new EXCEPT !.s = toUpperCase(@)]
                ELSE Thrown

\* C14 as stated: onChange(handler) satisfies GetPut, PutGet and PutPut for
\* every handler, base and updater, put(base, fn) being handler(fn(base), base).
C14_Original ==
  LawOf("onChange") =>
    /\ SameVal(last.put, Handled(last.lens.key, last.fnget, last.base))
    /\ GetPut /\ PutGet /\ PutPut

\* C14 amended: get is the identity and put(base, fn) is
\* handler(fn(base), base) for every handler; the three laws hold for a
\* handler that returns its newValue argument.
C14_OnChangeLaws ==
  LawOf("onChange") =>
    /\ SameVal(last.get, last.base)
    /\ SameVal(last.put, Handled(last.lens.key, last.fnget, last.base))
    /\ last.lens.key = "keepNew" => GetPut /\ PutGet /\ PutPut

\* a handler changed what the updater returned
C14_Witness ==
  /\ LawOf("onChange")
  /\ last.lens.key = "upper"
  /\ ~SameVal(last.put, last.fnget)
  /\ ~SameVal(last.put, last.base)

\* the shallow merge { ...old, ...new }
Merged(old, new) ==
  [k \in (DOMAIN old) \cup (DOMAIN new) |-> IF k \in DOMAIN new THEN new[k] ELSE old[k]]

\* C15 as stated: partial() satisfies GetPut, PutGet and PutPut for every
\* record base and every updater returning a subset of the fields.
C15_Original ==
  LawOf("partial") => GetPut /\ PutGet /\ PutPut

\* C15 amended: GetPut holds; get(put(base, fn)) is the shallow merge of
\* fn(base) onto base, which is fn(base) only when fn(base) has every field
\* of base; PutPut holds when each updater's result has every field of its
\* argument.
C15_PartialLaws ==
  LawOf("partial") =>
    /\ GetPut
    /\ SameVal(last.putget, last.put)
    /\ last.put.kind = "rec"
    /\ last.put.rec = Merged(last.base.rec, last.fnget.rec)
    /\ DOMAIN last.base.rec \subseteq DOMAIN last.fnget.rec => PutGet
    /\ last.fn1.leaf.op = "with" /\ last.fn2.leaf.op = "with" => PutPut

\* an updater returned one field of two and the other was kept
C15_Witness ==
  /\ LawOf("partial")
  /\ last.fn1.leaf.op = "only"
  /\ Cardinality(DOMAIN last.base.rec) = 2
  /\ Cardinality(DOMAIN last.fnget.rec) = 1
  /\ ~SameVal(last.put, last.base)
  /\ ~SameVal(last.put, last.fnget)

\* ------------------------------------- claims: lenses applied to links
IsOmitLink(l) == IsChildOfRoot(l) /\ lenses[Closure(l).lens].kind = "omitProp"

\* C16: a write through link.apply(omitProp(k)) of a record-valued link,
\* whatever the updater returns, leaves the root's field k present and equal
\* to its value before the write.
C16_OmitPropKeepsKey ==
  \A l \in DOMAIN links :
    WroteThrough(l) /\ IsOmitLink(l) /\ IsRecord(heap, last.before) =>
      /\ ~last.err
      /\ last.calls = 1
      /\ IsRecord(heap, current)
      /\ KeyOf(l) \in DOMAIN heap[current].rec
      /\ heap[current].rec[KeyOf(l)] = GetProp(heap, last.before, KeyOf(l))

\* the updater returned a record with a field named k holding another value
C16_Witness ==
  \E l \in DOMAIN links :
    /\ WroteThrough(l) /\ IsOmitLink(l) /\ IsRecord(heap, last.before)
    /\ last.fn.leaf.op = "with" /\ last.fn.leaf.key = KeyOf(l)
    /\ KeyOf(l) \in DOMAIN heap[last.before].rec
    /\ last.fn.leaf.v # heap[last.before].rec[KeyOf(l)]

\* a link made by apply(B) on a link made by apply(A) on a root link
IsGrandchildOfRoot(l) ==
  /\ Closure(l).kind = "derived"
  /\ updaters[Closure(l).parent].kind = "derived"
  /\ updaters[updaters[Closure(l).parent].parent].kind \in {"source", "setState"}
LensA(l) == updaters[Closure(l).parent].lens
LensB(l) == Closure(l).lens

\* C17: link.apply(A).apply(B) has the value B.get(A.get(link.value)), and
\* update(fn) on it changes the root as link.update(base => A.put(base, a =>
\* B.put(a, fn))) does.
C17_ApplyComposes ==
  \A l \in DOMAIN links :
    IsGrandchildOfRoot(l) =>
      /\ LET a == lensRead(M, LensA(l), updaters[Closure(l).parent].value)
         IN SameVal(Val(heap, links[l].value), Outcome(lensRead(a.m, LensB(l), a.r)))
      /\ WroteThrough(l) =>
           LET composed == lensPut(M, LensA(l), last.before, WrapFn(LensB(l), last.fn))
           IN /\ last.err = composed.err
              /\ last.calls = 1
              /\ ~last.err => SameVal(Val(heap, current), Outcome(composed))

\* apply(omitProp("a")).prop("b").set("s") made { a: "s", b: "s" } of { a: "s", b: "S" }
C17_Witness ==
  \E l \in DOMAIN links :
    /\ IsGrandchildOfRoot(l) /\ WroteThrough(l)
    /\ lenses[LensA(l)].kind = "omitProp" /\ lenses[LensB(l)].kind = "recordProp"
    /\ lenses[LensB(l)].key = "b"
    /\ last.fn = ConstFn(-1)
    /\ heap[last.before].rec = [a |-> -1, b |-> -2]
    /\ heap[current].rec = [a |-> -1, b |-> -1]

\* ------------------------------------------- claims: methods on other shapes
OnNonArray(ops) ==
  /\ last.op \in ops
  /\ ~IsArray(heap, links[last.link].value)

\* C18 as stated: item(idx) on a link whose value is not a sequence returns
\* null and does not raise.
C18_Original ==
  OnNonArray({"item"}) => last.result = NoLink /\ ~last.err

\* C18 amended: item(idx) on a link whose value is not a sequence returns
\* the shared link emptyValueLink, whose value is undefined and whose update
\* does nothing; it does not return null and does not raise.
C18_ItemReturnsEmptyLink ==
  OnNonArray({"item"}) =>
    /\ last.result = emptyValueLink
    /\ last.result # NoLink
    /\ links[last.result].value = Undefined
    /\ updaters[links[last.result].update].kind = "noop"
    /\ ~last.err
    /\ current = last.before

\* item() was called on a link of a record
C18_Witness ==
  /\ OnNonArray({"item"})
  /\ IsRecord(heap, links[last.link].value)

\* C19: on a link whose value is not a sequence items(), applyItems(lens) and
\* mapItems(fn) return an empty list and find(predicate) returns null; none of
\* them raises, calls the predicate or the mapping function, or calls the
\* root updater.
C19_SequenceMethodsDegrade ==
  /\ OnNonArray({"items", "applyItems", "mapItems"}) =>
       /\ last.list = <<>>
       /\ last.invoked = 0
       /\ ~last.err
       /\ last.calls = 0 /\ current = last.before
  /\ OnNonArray({"find"}) =>
       /\ last.result = NoLink
       /\ last.invoked = 0
       /\ ~last.err
       /\ last.calls = 0 /\ current = last.before

\* applyItems(lens) was called on a link of a string
C19_Witness ==
  /\ OnNonArray({"applyItems"})
  /\ IsString(links[last.link].value)

\* the own enumerable keys of a sequence or a string: its indices
IndexKeys(v) ==
  IF IsArray(heap, v) THEN {ToString(i - 1) : i \in 1..Len(heap[v].arr)}
  ELSE IF IsString(v) THEN {"0"} ELSE {}
AtIndexKey(v, k) ==
  IF IsArray(heap, v) THEN heap[v].arr[CHOOSE i \in 1..Len(heap[v].arr) : ToString(i - 1) = k]
  ELSE v

\* C20 as stated: on a link whose value is a sequence or a scalar props()
\* returns an empty mapping and a write through prop(name) leaves the root
\* value unchanged; neither raises.
C20_Original ==
  /\ last.op = "props" /\ ~IsRecord(heap, links[last.link].value) =>
       last.entries = {} /\ ~last.err
  /\ \A l \in DOMAIN links :
       WroteThrough(l) /\ IsPropLink(l) /\ ~IsRecord(heap, last.before) =>
         ~last.err /\ current = last.before

\* C20 amended: props() returns an empty mapping on a scalar and one link
\* for each index on a sequence; a write through prop(name) of a sequence or
\* scalar root replaces the root by a record of the old value's indices plus
\* name; neither raises (set(v) always succeeds, update(fn) when fn accepts
\* the old value's entry under name, undefined if it has none).
C20_RecordMethodsOnOtherShapes ==
  /\ last.op = "props" /\ isScalar(links[last.link].value) =>
       last.entries = {} /\ ~last.err
  /\ last.op = "props" /\ IsArray(heap, links[last.link].value) =>
       /\ {e[1] : e \in last.entries} = IndexKeys(links[last.link].value)
       /\ \A e \in last.entries :
            links[e[2]].value = AtIndexKey(links[last.link].value, e[1])
       /\ ~last.err
  /\ \A l \in DOMAIN links :
       /\ WroteThrough(l) /\ IsPropLink(l) /\ ~IsRecord(heap, last.before)
       /\ last.fn.leaf.op = "const" \/ IsString(GetProp(heap, last.before, KeyOf(l)))
       =>
         /\ ~last.err
         /\ last.calls = 1
         /\ IsRecord(heap, current)
         /\ DOMAIN heap[current].rec = IndexKeys(last.before) \cup {KeyOf(l)}
         /\ heap[current].rec[KeyOf(l)]
              = Wanted(last.fn, GetProp(heap, last.before, KeyOf(l)))
         /\ \A k \in IndexKeys(last.before) \ {KeyOf(l)} :
              heap[current].rec[k] = AtIndexKey(last.before, k)

\* props() of a sequence link returned a link for each of two indices, and a
\* write through prop(name) was applied to the sequence
C20_Witness ==
  \E l \in DOMAIN links :
    /\ WroteThrough(l) /\ IsPropLink(l)
    /\ KeyOf(l) \in PropNames
    /\ IsArray(heap, last.before)
    /\ Len(heap[last.before].arr) = 2
    /\ \E p \in DOMAIN links :
         /\ IsPropLink(p) /\ KeyOf(p) = "1"
         /\ links[p].value = heap[last.before].arr[2]

\* ------------------------------------------------ claims: links of a new root
\* the prop() and props() calls made on links of the creator itself
OfRoot == {h \in Derived : h.op \in {"prop", "props"} /\ h.update \in RootUpdaters}

\* C21: link identity is not reused across root values: prop(k) / props()[k]
\* on the link of one root value and on the link of another root value are
\* different link objects, each carrying its own root's value of k, whether
\* or not the two roots differ at k and even when the updater is the same.
C21_NewRootNewLinks ==
  \A h1, h2 \in OfRoot :
    h1.key = h2.key /\ h1.value # h2.value =>
      /\ h1.result # h2.result
      /\ links[h1.result].value = GetProp(heap, h1.value, h1.key)
      /\ links[h2.result].value = GetProp(heap, h2.value, h2.key)

\* after a write, prop(k) was called on the links of the old and the new root
\* with the same updater, and the two roots agree on k
C21_Witness ==
  /\ Written
  /\ \E h1, h2 \in OfRoot :
       /\ h1.key = h2.key /\ h1.value # h2.value /\ h1.update = h2.update
       /\ h2.value = current
       /\ GetProp(heap, h1.value, h1.key) = GetProp(heap, h2.value, h2.key)

\* ------------------------------------------------ claims: the props() mapping
\* C22: props() itself is memoized: two props() calls on cache-enabled links
\* with the same value and the same updater return the same mapping object.
C22_PropsReturnsSameMapping ==
  \A b1, b2 \in hist :
    b1.cached /\ b2.cached /\ b1.value = b2.value /\ b1.update = b2.update =>
      b1.obj = b2.obj

\* ------------------------------------------------------ claims: a link's name
\* C28: prop(k) returns a link whose name is k and createLink(v, u, n) returns
\* a link whose name is n, whatever was called before.
C28_NameIsAsAsked ==
  /\ last.op = "prop" => links[last.result].name = last.key
  /\ last.op = "create" => links[last.result].name = last.name

\* ---------------------------------------------- claims: the table of scalars
NamesUsed == {h.key : h \in {g \in hist : g.op \in {"prop", "props"}}}
IndicesUsed == {h.idx : h \in {g \in hist : g.op \in {"item", "items", "find"}}}
\* the scalar values of the links a creator call or a navigation through the
\* cache was made with; items() hands its memoizer undefined
ScalarsNavigated ==
  {h.value : h \in {g \in hist : g.cached /\ isScalar(g.value)}}
    \cup {Undefined : l \in {k \in DOMAIN links : links[k].itemsDone}}

\* C23 as stated: the table of boxed scalars holds property names and indices
\* used in navigation and nothing else; no scalar value of the state is in it.
C23_Original ==
  /\ boxes.str \subseteq NamesUsed
  /\ boxes.num \subseteq IndicesUsed
  /\ boxes.val = {}

\* C23 amended: the table of boxed scalars holds the property names and
\* indices used in navigation, the scalar values of the links a creator call
\* or a navigation was made with, and undefined once items() was called;
\* nothing else, and never an object.
C23_TableOfScalars ==
  /\ boxes.str \subseteq NamesUsed
  /\ boxes.num \subseteq IndicesUsed
  /\ boxes.val \subseteq ScalarsNavigated
  /\ \A v \in boxes.val : isScalar(v)

\* after a write the table holds two state strings next to a property name
C23_Witness ==
  /\ Written
  /\ Strings \subseteq boxes.val
  /\ boxes.str # {}

\* ------------------------------------------------ claims: an absent property
\* C25: recordProp(key) tolerates an absent base.  prop(k) on a link whose
\* value is undefined returns a link whose value is undefined; set(v) through
\* link.prop(ka).prop(kb) does not raise and makes a root that has every
\* other key as it was and at ka a record in which kb is v; when the root had
\* nothing at ka that record is exactly {kb: v}.
C25_RecordPropOnAbsentBase ==
  /\ \A l \in DOMAIN links :
       /\ Closure(l).kind = "derived"
       /\ lenses[Closure(l).lens].kind = "recordProp"
       /\ Closure(l).value = Undefined
       => links[l].value = Undefined
  /\ \A l \in DOMAIN links :
       /\ IsGrandchildOfRoot(l) /\ WroteThrough(l)
       /\ IsRecord(heap, last.before)
       /\ isScalar(GetProp(heap, last.before, lenses[LensA(l)].key))
            => GetProp(heap, last.before, lenses[LensA(l)].key) = Undefined
       => LET ka == lenses[LensA(l)].key
              kb == lenses[LensB(l)].key
              old == GetProp(heap, last.before, ka)
          IN /\ ~last.err /\ last.calls = 1
             /\ IsRecord(heap, current)
             /\ DOMAIN heap[current].rec = DOMAIN heap[last.before].rec \cup {ka}
             /\ \A k \in DOMAIN heap[last.before].rec \ {ka} :
                  heap[current].rec[k] = heap[last.before].rec[k]
             /\ IsRecord(heap, heap[current].rec[ka])
             /\ heap[heap[current].rec[ka]].rec = WithProp(Spread(heap, old), kb, last.fn.leaf.v)
             /\ old = Undefined => heap[heap[current].rec[ka]].rec = (kb :> last.fn.leaf.v)

\* link.prop("a").prop("b").set(v) was called on the link of a root without a
C25_Witness ==
  \E l \in DOMAIN links :
    /\ IsGrandchildOfRoot(l) /\ WroteThrough(l)
    /\ lenses[LensA(l)].key = "a" /\ lenses[LensB(l)].key = "b"
    /\ links[l].value = Undefined
    /\ heap[last.before].rec = [b |-> -2]
    /\ DOMAIN heap[current].rec = {"a", "b"}
    /\ heap[current].rec["b"] = -2
    /\ heap[heap[current].rec["a"]].rec = [b |-> last.fn.leaf.v]

\* ------------------------------------------------ claims: mapChangedItems
\* the item of a sequence at a 0-based index, undefined past its end
At(seq, i) == IF i < Len(seq) THEN seq[i + 1] ELSE Undefined

\* C26: mapChangedItems(handler) runs handler only on items that have
\* changed: where the new item is identical to the old item at the same index
\* the result keeps the new item and handler is not called, elsewhere the
\* result is handler(newItem, oldItem).
C26_OnlyChangedItems ==
  last.op = "mapChanged" =>
    /\ Len(last.result) = Len(last.new)
    /\ \A i \in 0..(Len(last.new) - 1) :
         IF At(last.new, i) = At(last.old, i)
         THEN i \notin last.invoked /\ At(last.result, i) = At(last.new, i)
         ELSE /\ i \in last.invoked
              /\ At(last.result, i) = handlerApply(M, last.handler, At(last.new, i), At(last.old, i)).r

\* ------------------------------------------------ claims: stale links
\* two writes made one right after the other
TwoWrites == {i \in 1..(Len(hist) - 1) : ~hist[i].err /\ ~hist[i + 1].err}
\* the two were made through prop() links of one snapshot, for different keys
OfOneSnapshot(i) ==
  /\ IsPropLink(hist[i].link) /\ IsPropLink(hist[i + 1].link)
  /\ KeyOf(hist[i].link) # KeyOf(hist[i + 1].link)
  /\ Closure(hist[i].link).value = Closure(hist[i + 1].link).value
\* the root the same two writes make of root, the second write made first
Swapped(i) ==
  LET first == update([M EXCEPT !.current = hist[i].before], hist[i + 1].link, hist[i + 1].fn)
      then == update(first.m, hist[i].link, hist[i].fn)
  IN [then EXCEPT !.err = first.err \/ then.err]

\* C27: with a root updater that applies the mutator to the current root, two
\* writes through links of one snapshot for different properties both
\* persist: the final root has each of the two properties as its write made
\* it and every other property as it was; and the final root is the same, by
\* value, when the same two writes are made in the other order.
C27_StaleWritesBothPersist ==
  \A i \in TwoWrites :
    OfOneSnapshot(i) =>
      LET k1 == KeyOf(hist[i].link)
          k2 == KeyOf(hist[i + 1].link)
          start == hist[i].before
          final == hist[i + 1].after
      IN /\ hist[i].calls = 1 /\ hist[i + 1].calls = 1
         /\ IsRecord(heap, final)
         /\ DOMAIN heap[final].rec = DOMAIN heap[start].rec
         /\ heap[final].rec[k1] = Wanted(hist[i].fn, heap[start].rec[k1])
         /\ heap[final].rec[k2] = Wanted(hist[i + 1].fn, heap[start].rec[k2])
         /\ \A k \in DOMAIN heap[start].rec \ {k1, k2} : heap[final].rec[k] = heap[start].rec[k]
         /\ ~Swapped(i).err
         /\ heap[final].rec = Swapped(i).m.heap[Swapped(i).m.current].rec

\* prop("a") and prop("b") of the first snapshot were written through, the
\* second after the first had replaced the root, and both writes changed
\* their property
C27_Witness ==
  \E i \in TwoWrites :
    /\ OfOneSnapshot(i)
    /\ Closure(hist[i].link).value = hist[i].before
    /\ hist[i].after # hist[i].before
    /\ heap[hist[i].before].rec = [a |-> -1, b |-> -2]
    /\ heap[hist[i + 1].after].rec = [a |-> -2, b |-> -1]

\* the writes made through an item(idx) link of a root link at a time when
\* the current root was a sequence no longer than idx
PastTheEnd ==
  {i \in 1..Len(hist) :
     /\ IsItemLink(hist[i].link)
     /\ IsArray(heap, hist[i].before)
     /\ IdxOf(hist[i].link) >= Len(heap[hist[i].before].arr)}

\* C29: a write through an item(idx) link does not raise when the current
\* sequence is no longer than idx: set(v), whose updater has a result for
\* undefined, makes the current sequence with v appended at the end, one
\* element longer and every existing element kept in order; the new element
\* is at the old length, not at idx, when idx is greater.  An updater that
\* itself raises on undefined leaves the root as it is.
C29_StaleItemWriteAppends ==
  \A i \in PastTheEnd :
    LET old == heap[hist[i].before].arr
    IN IF hist[i].fn.leaf.op = "const"
       THEN /\ ~hist[i].err /\ hist[i].calls = 1
            /\ IsArray(heap, hist[i].after)
            /\ heap[hist[i].after].arr = Append(old, hist[i].fn.leaf.v)
            /\ Len(heap[hist[i].after].arr) = Len(old) + 1
            /\ heap[hist[i].after].arr[Len(old) + 1] = hist[i].fn.leaf.v
            /\ \A j \in 1..Len(old) : heap[hist[i].after].arr[j] = old[j]
       ELSE hist[i].err /\ hist[i].after = hist[i].before

\* item(1) was taken from a sequence of two, the sequence was emptied, and
\* set(v) through the link made a sequence of one
C29_Witness ==
  \E i \in PastTheEnd :
    /\ hist[i].fn.leaf.op = "const"
    /\ IdxOf(hist[i].link) > Len(heap[hist[i].before].arr)
    /\ Len(heap[Closure(hist[i].link).value].arr) > IdxOf(hist[i].link)
    /\ heap[hist[i].after].arr = <<hist[i].fn.leaf.v>>

\* ------------------------------------------------ claims: the inert link
RECURSIVE RootOf(_)
\* the updater at the bottom of a link's chain of update closures
RootOf(u) == IF updaters[u].kind = "derived" THEN RootOf(updaters[u].parent) ELSE u
\* emptyValueLink and the links derived from it
FromEmptyLink(l) == RootOf(links[l].update) = NoopUpdater

\* C30: item(idx) on a link whose value is not a sequence returns one shared
\* link, the same object whatever the parent and idx; its value is undefined;
\* set/update through it or through a link derived from it does not call a
\* root updater and leaves the root as it is.
C30_SharedInertLink ==
  /\ links[emptyValueLink].value = Undefined
  /\ FromEmptyLink(emptyValueLink)
  /\ OnNonArray({"item"}) => last.result = emptyValueLink
  /\ \A l \in DOMAIN links :
       FromEmptyLink(l) /\ WroteThrough(l) =>
         /\ last.calls = 0
         /\ ~last.err
         /\ current = last.before

\* set(v) was called on a link that prop() made of emptyValueLink, while
\* there is a link of the state
C30_Witness ==
  \E l \in DOMAIN links :
    /\ WroteThrough(l)
    /\ l # emptyValueLink
    /\ Closure(l).kind = "derived" /\ Closure(l).parent = NoopUpdater
    /\ cache # {}

\* ------------------------------------------------ claims: collection
\* the links constructed for a root pair or derived from it
LinksOf(v, u) ==
  {l \in DOMAIN links :
     \/ links[l].value = v /\ links[l].update = u
     \/ updaters[links[l].update].kind = "derived" /\ RootOf(links[l].update) = u}
\* the application holds no reference to the root value and its updater
LetGo(v, u) == <<"upd", u>> \notin AppReach /\ <<"obj", v>> \notin AppReach

\* C24: the caches do not keep a replaced (value, updater) pair alive: once
\* the application holds no reference to a root value and its updater, no
\* link constructed for the pair or derived from it is reachable through the
\* caches, nor is the updater, nor a root value that is an object.
C24_CachesLetGo ==
  \A e \in cache :
    LetGo(e.k1, e.k2) =>
      /\ \A l \in LinksOf(e.k1, e.k2) : <<"link", l>> \notin Reach
      /\ <<"upd", e.k2>> \notin Reach
      /\ <<"obj", e.k1>> \notin Reach

\* after a write and a new state source the caches hold the link of the old
\* pair and a link derived from it, the application holds neither the old
\* value nor the old updater, and a link of the new pair is alive
C24_Witness ==
  \E e \in cache :
    /\ LetGo(e.k1, e.k2)
    /\ ~isScalar(e.k1) /\ e.k1 # current
    /\ \E d \in applyCache : d.k1 = e.k1 /\ d.k2 = e.k2
    /\ \E f \in cache : f.k2 # e.k2 /\ <<"link", f.v>> \in Reach

====
